---- MODULE Spec2Model ----
(***************************************************************************)
(* The OAuth bootstrap of discord-qna-bot: async_main_user_flow            *)
(* (src/src/main.py), the callback receiver it starts                      *)
(* (src/src/auth/oauth_server.py) and the credential store both share      *)
(* (src/src/auth/token_manager.py, src/src/token_storage.py).              *)
(*                                                                         *)
(* Time is a discrete clock `now`.  A store is a Python dict, modelled as  *)
(* the sequence of its (id, credential) items in insertion order.          *)
(***************************************************************************)
EXTENDS Integers, Sequences, FiniteSets, TLC

\* ------------------------------------------------------------- bounds
\* The clock of a run starts at 2 and stops at MaxTime.
MaxTime == 3
\* Ids 1..MaxStore are the keys save_token is called with.
MaxStore == 2
\* Guilds 1..MaxGuilds exist upstream.
MaxGuilds == 2
\* Token exchanges the receiver attempts against the upstream token endpoint in one run.
MaxExchanges == 1
\* delete_token calls in one run.
MaxDeletes == 1

\* Values of expires_in (a lifetime, in clock readings) the upstream token
\* endpoint answers with.
ExpiresIns == {2}

\* Optional[datetime] = None
None == -1

\* ------------------------------------------------------------- credentials
\* TokenModel: the second reading of the clock (created_at's default_factory)
\* comes after the first (the expires_at argument).
TokenModel(n, expires_in, expires_at, created_at) ==
    [access_token |-> n, token_type |-> "Bearer", expires_in |-> expires_in,
     refresh_token |-> n, scope |-> "identify guilds",
     created_at |-> created_at, expires_at |-> expires_at]

\* is_expired that takes an absent expires_at for "never expires"
is_expired_unset_valid(tok, t) ==
    IF tok.expires_at = None THEN FALSE ELSE t >= tok.expires_at

\* is_expired with > in place of >=
is_expired_strict(tok, t) ==
    IF tok.expires_at = None THEN TRUE ELSE t > tok.expires_at

\* TokenModel.is_expired at clock reading t
is_expired(tok, t) ==
    IF tok.expires_at = None THEN TRUE ELSE t >= tok.expires_at

Min(a, b) == IF a <= b THEN a ELSE b

\* ------------------------------------------------------------- the store
Entry(id, tok) == [id |-> id, tok |-> tok]

Ids(tokens) == {tokens[i].id : i \in 1..Len(tokens)}

Toks(tokens) == {tokens[i].tok : i \in 1..Len(tokens)}

\* self._tokens[token_id] = token_data : a present key keeps its place in the
\* dict, a new key goes to the end.
DictSet(tokens, id, tok) ==
    IF id \in Ids(tokens)
    THEN [i \in 1..Len(tokens) |->
             IF tokens[i].id = id THEN Entry(id, tok) ELSE tokens[i]]
    ELSE Append(tokens, Entry(id, tok))

\* del self._tokens[token_id]
DictDel(tokens, id) == SelectSeq(tokens, LAMBDA e : e.id # id)

\* datetime.isoformat / datetime.fromisoformat: the text form of a timestamp
isoformat(t) == <<"iso", t>>

fromisoformat(s) == s[2]

\* _save_tokens: model_dump of every entry, created_at as text, expires_at as
\* text when it is set (null otherwise); the whole file is rewritten.
DumpTok(tok) ==
    [tok EXCEPT !.created_at = isoformat(tok.created_at),
                !.expires_at = IF tok.expires_at # None
                               THEN isoformat(tok.expires_at) ELSE <<"null">>]

_save_tokens(tokens) ==
    [ok |-> TRUE,
     data |-> [i \in 1..Len(tokens) |-> Entry(tokens[i].id, DumpTok(tokens[i].tok))]]

\* ParseTok that does not restore expires_at.
ParseTok_NoExpiry(d) ==
    [d EXCEPT !.created_at = fromisoformat(d.created_at), !.expires_at = None]

\* _load_tokens, one entry: created_at parsed, expires_at parsed when it is set.
ParseTok(d) ==
    [d EXCEPT !.created_at = fromisoformat(d.created_at),
              !.expires_at = IF d.expires_at # <<"null">>
                             THEN fromisoformat(d.expires_at) ELSE None]

\* _load_tokens: every entry of the file is assigned into self._tokens, which
\* is not cleared first.  Defined for a parsable file.
RECURSIVE LoadFrom(_, _, _)
LoadFrom(tokens, data, i) ==
    IF i > Len(data) THEN tokens
    ELSE LoadFrom(DictSet(tokens, data[i].id, ParseTok(data[i].tok)), data, i + 1)

_load_tokens(tokens, f) == LoadFrom(tokens, f.data, 1)

\* get_latest_token that returns the value inserted last.
get_latest_token_last_inserted(tokens) ==
    IF tokens = <<>> THEN <<>> ELSE <<tokens[Len(tokens)].tok>>

\* get_latest_token: None (<<>>) on an empty store, else max(values, key=created_at),
\* which is the first maximal value in the dict's order.
get_latest_token(tokens) ==
    IF tokens = <<>> THEN <<>>
    ELSE LET i == CHOOSE i \in 1..Len(tokens) :
                    /\ \A j \in 1..Len(tokens) :
                          tokens[j].tok.created_at <= tokens[i].tok.created_at
                    /\ \A j \in 1..(i - 1) :
                          tokens[j].tok.created_at < tokens[i].tok.created_at
         IN  <<tokens[i].tok>>

\* `latest_token and not latest_token.is_expired()`
Usable(latest, t) == latest # <<>> /\ ~is_expired(latest[1], t)


\* ------------------------------------------------------------- state
VARIABLES
    now,          \* datetime.utcnow()
    file,         \* ~/.discord_qna_bot/tokens.json: [ok, data]; ok = parsable
    ms_tokens,    \* token_storage._tokens of async_main_user_flow
    rs_tokens,    \* token_manager._tokens of the callback receiver (module level)
    pc,           \* position of async_main_user_flow
    server_task,  \* the asyncio task running run_server
    latest_token, \* local latest_token: <<>> for None, <<tok>> otherwise
    checked_at,   \* clock reading at which the flow found its credential usable
    path,         \* which branch the entry check took: "fast", "slow", "" before it
    discord,      \* the client the flow holds: its credential kind and token
    browser,      \* webbrowser.open(auth_url) has been called
    exit_code,    \* process exit status, None while running
    closed,       \* number of discord.close() calls
    response,     \* last answer of the receiver's /oauth2/callback
    exchanges,    \* token exchanges the receiver has attempted
    issued,       \* access tokens the upstream token endpoint has issued
    other_done,   \* another process has served a callback
    deletes,      \* delete_token calls so far
    damaged,      \* the store file has been damaged from outside
    call,         \* last call made on the TokenManager API: [op, id, tok, ret]
    flow,         \* the crawl that runs: "service" (DiscordService) or "bot" (main.py)
    cpc,          \* position of the crawl
    guilds,       \* local guilds: the guild listing
    gi,           \* index of the guild the loop is at
    channels,     \* local channels / text_channels
    ci,           \* index of the channel the loop is at
    guild_messages, \* all_messages of fetch_messages_from_guild
    all_messages, \* all_messages of the crawl
    attempted,    \* channel ids get_channel_messages was called with, in order
    failed_channels, \* channel ids whose get_channel_messages raised
    failed_guilds, \* guild ids whose get_guild_channels raised
    request,      \* last call of DiscordClient.get_channel_messages and what it sent
    indexer,      \* the indexing code that runs: "service" (RAGService) or "playground"
    api_messages, \* the messages as the upstream API answered them
    messages,     \* self.messages: the MessageModel objects made of them
    ipc,          \* position of the indexing: "start", "processed", "indexed"
    processed_data, \* the dict process_messages returned
    threads,      \* the playground's thread index
    nodes,        \* the TextNodes handed to VectorStoreIndex
    _messages,    \* MessageService._messages
    rag_service,  \* MessageService.rag_service: <<>> for None, <<[messages, _index]>>
    fetches,      \* calls of DiscordService.fetch_messages_from_all_guilds
    builds,       \* indexes create_index has built
    log,          \* the MessageService methods called so far, in order
    result,       \* how the last call ended and what it returned
    bot_min_score, \* min_score of the bot flow, None before it is read
    query,        \* the last line the query loop read, "" before
    printed,      \* the results the query loop printed for it
    queries,      \* lines the query loop has read
    failure,      \* what failed in the fetch phase of the user flow: [stage, error]
    client        \* a DiscordClient instance: [token, token_type, headers]

oauth_vars == <<now, file, ms_tokens, rs_tokens, pc, server_task, latest_token,
                checked_at, path, discord, browser, exit_code, closed, response,
                exchanges, issued, other_done, deletes, damaged>>

crawl_vars == <<flow, cpc, guilds, gi, channels, ci, guild_messages, all_messages,
                attempted, failed_channels, failed_guilds>>

\* The client, the indexer and the message service.
index_vars == <<indexer, api_messages, messages, ipc, processed_data, threads, nodes>>

service_vars == <<_messages, rag_service, fetches, builds, log, result>>

loop_vars == <<bot_min_score, query, printed, queries>>

extra_vars == <<loop_vars, failure, client>>

app_vars == <<request, index_vars, service_vars, extra_vars>>

vars == <<oauth_vars, call, crawl_vars, app_vars>>

store_vars == <<file, ms_tokens, rs_tokens, response, exchanges, issued, other_done,
                deletes, damaged>>

flow_vars == <<pc, latest_token, checked_at, path, discord, browser, exit_code, closed>>

\* The flow is suspended at an await: only then do other tasks of the loop run.
\* pc = "serve" is a process that runs the receiver alone (start_server).
Suspended == pc \in {"sleep", "await_ok", "await_err", "serve"}

\* The bootstrap is under way: the flow has neither a client to crawl with nor ended.
Bootstrapping == pc \notin {"fetch", "done", "exited", "raised"}

NoClient == [kind |-> "none", token |-> None]

\* DiscordAPI(config): no token, no Authorization header
OAuthClient == [kind |-> "oauth", token |-> None]

\* DiscordAPI(token=..., token_type=TokenType.USER): "Bearer {token}"
UserClient(tok) == [kind |-> "Bearer", token |-> tok.access_token]

\* Store files left by earlier runs, whose callbacks were served at clock
\* readings 0 and 1; this run starts at clock reading 2.
OldValid == TokenModel(8, 3, 3, 0)

OldExpired == TokenModel(9, 1, 2, 1)

InitStores ==
    { <<>>,
      <<Entry(1, OldValid)>>,
      <<Entry(1, TokenModel(9, 1, 1, 0))>>,
      <<Entry(1, OldValid), Entry(2, OldExpired)>> }

\* Both stores are constructed (TokenStorage(), TokenManager()) from the file;
\* the receiver's at import time.
InitCommon ==
    /\ now = 2
    /\ \E st \in InitStores :
          /\ file = _save_tokens(st)
          /\ ms_tokens = _load_tokens(<<>>, _save_tokens(st))
          /\ rs_tokens = _load_tokens(<<>>, _save_tokens(st))
    /\ latest_token = <<>>
    /\ checked_at = None
    /\ path = ""
    /\ discord = NoClient
    /\ browser = FALSE
    /\ exit_code = None
    /\ closed = 0
    /\ response = [status |-> 0, token_id |-> 0]
    /\ exchanges = 0
    /\ issued = 0
    /\ other_done = FALSE
    /\ deletes = 0
    /\ damaged = FALSE

\* No call has been made on the TokenManager API.
NoCall == [op |-> "none", id |-> 0, tok |-> <<>>, t |-> None, ret |-> <<>>]

\* No crawl runs.
NoCrawl ==
    /\ flow = "none"
    /\ cpc = "idle"
    /\ guilds = <<>>
    /\ gi = 0
    /\ channels = <<>>
    /\ ci = 0
    /\ guild_messages = <<>>
    /\ all_messages = <<>>
    /\ attempted = <<>>
    /\ failed_channels = {}
    /\ failed_guilds = {}

\* No call of get_channel_messages yet. An Optional[str] is <<>> for None
\* and <<s>> for the string s.
NoRequest == [status |-> "none", limit |-> 0, before |-> <<>>, after |-> <<>>,
              around |-> <<>>, sent |-> <<>>, headers |-> <<>>]

NoIndexing ==
    /\ indexer = "none"
    /\ api_messages = <<>>
    /\ messages = <<>>
    /\ ipc = "idle"
    /\ processed_data = <<>>
    /\ threads = <<>>
    /\ nodes = <<>>

\* No call has returned anything.
NoResult == [raised |-> "", value |-> <<>>, top_k |-> 0, min_score |-> 0,
             similarity_top_k |-> 0, retrieved |-> <<>>, handle |-> 0]

\* MessageService.__init__
NoService ==
    /\ _messages = <<>>
    /\ rag_service = <<>>
    /\ fetches = 0
    /\ builds = 0
    /\ log = <<>>
    /\ result = NoResult

\* The query loop has not begun.
NoLoop ==
    /\ bot_min_score = None
    /\ query = ""
    /\ printed = <<>>
    /\ queries = 0

\* Nothing has failed in the fetch phase.
NoFailure == [stage |-> "none", error |-> "none"]

\* No DiscordClient is looked at.
NoInstance == [token |-> <<>>, token_type |-> "none", headers |-> <<>>]

NoExtra ==
    /\ NoLoop
    /\ failure = NoFailure
    /\ client = NoInstance

NoApp ==
    /\ request = NoRequest
    /\ NoIndexing
    /\ NoService
    /\ NoExtra

\* async_main_user_flow at its entry check.
Init ==
    /\ InitCommon
    /\ pc = "entry"
    /\ server_task = "none"
    /\ call = NoCall
    /\ NoCrawl
    /\ NoApp

\* oauth_server.start_server: the receiver alone, serving.
StoreInit ==
    /\ InitCommon
    /\ pc = "serve"
    /\ server_task = "running"
    /\ call = NoCall
    /\ NoCrawl
    /\ NoApp

\* ------------------------------------------------------------- the main flow
\* Task.cancel(): a task that is not done is asked to cancel, a done one is left.
Cancel(t) == IF t \in {"pending", "running"} THEN "cancelling" ELSE t

\* EntryCheck with the receiver task created before the check, on both branches.
EntryCheck_ServerFirst ==
    /\ pc = "entry"
    /\ LET latest == get_latest_token(ms_tokens) IN
          /\ latest_token' = latest
          /\ checked_at' = IF Usable(latest, now) THEN now ELSE checked_at
          /\ IF Usable(latest, now)
             THEN /\ discord' = UserClient(latest[1])
                  /\ pc' = "fetch"
                  /\ path' = "fast"
             ELSE /\ discord' = discord
                  /\ pc' = "authorize"
                  /\ path' = "slow"
    /\ server_task' = "pending"
    /\ UNCHANGED <<now, browser, exit_code, closed>>
    /\ UNCHANGED store_vars
    /\ UNCHANGED <<call, crawl_vars, app_vars>>

\* EntryCheck whose slow path does not create the receiver task.
EntryCheck_NoServer ==
    /\ pc = "entry"
    /\ LET latest == get_latest_token(ms_tokens) IN
          /\ latest_token' = latest
          /\ checked_at' = IF Usable(latest, now) THEN now ELSE checked_at
          /\ IF Usable(latest, now)
             THEN /\ discord' = UserClient(latest[1])
                  /\ pc' = "fetch"
                  /\ path' = "fast"
             ELSE /\ discord' = discord
                  /\ pc' = "authorize"
                  /\ path' = "slow"
    /\ server_task' = server_task
    /\ UNCHANGED <<now, browser, exit_code, closed>>
    /\ UNCHANGED store_vars
    /\ UNCHANGED <<call, crawl_vars, app_vars>>

\* main.py 38-46: the entry check; the fast path builds the client at once,
\* the slow path creates the receiver task (which has not run yet).
EntryCheck ==
    /\ pc = "entry"
    /\ LET latest == get_latest_token(ms_tokens) IN
          /\ latest_token' = latest
          /\ checked_at' = IF Usable(latest, now) THEN now ELSE checked_at
          /\ IF Usable(latest, now)
             THEN /\ discord' = UserClient(latest[1])
                  /\ pc' = "fetch"
                  /\ path' = "fast"
                  /\ server_task' = server_task
             ELSE /\ discord' = discord
                  /\ pc' = "authorize"
                  /\ path' = "slow"
                  /\ server_task' = "pending"
    /\ UNCHANGED <<now, browser, exit_code, closed>>
    /\ UNCHANGED store_vars
    /\ UNCHANGED <<call, crawl_vars, app_vars>>

\* main.py 50-69: the OAuth client, the authorization URL, the browser.
Authorize ==
    /\ pc = "authorize"
    /\ discord' = OAuthClient
    /\ browser' = TRUE
    /\ pc' = "poll"
    /\ UNCHANGED <<now, server_task, latest_token, checked_at, path, exit_code, closed>>
    /\ UNCHANGED store_vars
    /\ UNCHANGED <<call, crawl_vars, app_vars>>

\* Poll without the reload of line 71: the store as it was constructed.
Poll_NoReload ==
    /\ pc = "poll"
    /\ file.ok
    /\ \E latest \in {get_latest_token(ms_tokens)} :
          /\ ms_tokens' = ms_tokens
          /\ latest_token' = latest
          /\ checked_at' = IF Usable(latest, now) THEN now ELSE checked_at
          /\ IF Usable(latest, now)
             THEN /\ discord' = UserClient(latest[1])
                  /\ server_task' = Cancel(server_task)
                  /\ pc' = "await_ok"
             ELSE /\ discord' = discord
                  /\ server_task' = server_task
                  /\ pc' = "sleep"
    /\ UNCHANGED <<now, path, browser, exit_code, closed>>
    /\ UNCHANGED <<file, rs_tokens, response, exchanges, issued, other_done, deletes,
                   damaged>>
    /\ UNCHANGED <<call, crawl_vars, app_vars>>

\* Poll that drops the expired entries after the reload and saves the store.
Poll_PrunesExpired ==
    /\ pc = "poll"
    /\ file.ok
    /\ \E loaded \in {SelectSeq(_load_tokens(ms_tokens, file),
                                LAMBDA e : ~is_expired(e.tok, now))} :
       \E latest \in {get_latest_token(loaded)} :
          /\ ms_tokens' = loaded
          /\ file' = _save_tokens(loaded)
          /\ latest_token' = latest
          /\ checked_at' = IF Usable(latest, now) THEN now ELSE checked_at
          /\ IF Usable(latest, now)
             THEN /\ discord' = UserClient(latest[1])
                  /\ server_task' = Cancel(server_task)
                  /\ pc' = "await_ok"
             ELSE /\ discord' = discord
                  /\ server_task' = server_task
                  /\ pc' = "sleep"
    /\ UNCHANGED <<now, path, browser, exit_code, closed>>
    /\ UNCHANGED <<rs_tokens, response, exchanges, issued, other_done, deletes, damaged>>
    /\ UNCHANGED <<call, crawl_vars, app_vars>>

\* main.py 70-80: one iteration of the poll loop on a parsable file; on a
\* usable credential the loop is left and the receiver task is cancelled.
Poll ==
    /\ pc = "poll"
    /\ file.ok
    /\ \E loaded \in {_load_tokens(ms_tokens, file)} :
       \E latest \in {get_latest_token(loaded)} :
          /\ ms_tokens' = loaded
          /\ latest_token' = latest
          /\ checked_at' = IF Usable(latest, now) THEN now ELSE checked_at
          /\ IF Usable(latest, now)
             THEN /\ discord' = UserClient(latest[1])
                  /\ server_task' = Cancel(server_task)
                  /\ pc' = "await_ok"
             ELSE /\ discord' = discord
                  /\ server_task' = server_task
                  /\ pc' = "sleep"
    /\ UNCHANGED <<now, path, browser, exit_code, closed>>
    /\ UNCHANGED <<file, rs_tokens, response, exchanges, issued, other_done, deletes,
                   damaged>>
    /\ UNCHANGED <<call, crawl_vars, app_vars>>

\* main.py 71, 85-87: json.load raises on an unparsable file; the handler
\* cancels the receiver task.
PollRaise ==
    /\ pc = "poll"
    /\ ~file.ok
    /\ server_task' = Cancel(server_task)
    /\ pc' = "await_err"
    /\ UNCHANGED <<now, latest_token, checked_at, path, discord, browser, exit_code, closed>>
    /\ UNCHANGED store_vars
    /\ UNCHANGED <<call, crawl_vars, app_vars>>

\* main.py 77: await sleep(1) is over
Wake ==
    /\ pc = "sleep"
    /\ pc' = "poll"
    /\ UNCHANGED <<now, server_task, latest_token, checked_at, path, discord, browser,
                   exit_code, closed>>
    /\ UNCHANGED store_vars
    /\ UNCHANGED <<call, crawl_vars, app_vars>>

\* AwaitOk without `except asyncio.CancelledError`: the cancellation leaves the flow.
AwaitOk_NoSwallow ==
    /\ pc = "await_ok"
    /\ server_task \in {"cancelled", "finished", "failed"}
    /\ pc' = CASE server_task = "failed" -> "await_err"
              [] server_task = "cancelled" -> "raised"
              [] OTHER -> "fetch"
    /\ exit_code' = IF server_task = "cancelled" THEN 1 ELSE exit_code
    /\ UNCHANGED <<now, server_task, latest_token, checked_at, path, discord, browser,
                   closed>>
    /\ UNCHANGED store_vars
    /\ UNCHANGED <<call, crawl_vars, app_vars>>

\* AwaitOk without the await: the flow goes on while the task is not done.
AwaitOk_NoAwait ==
    /\ pc = "await_ok"
    /\ pc' = IF server_task = "failed" THEN "await_err" ELSE "fetch"
    /\ UNCHANGED <<now, server_task, latest_token, checked_at, path, discord, browser,
                   exit_code, closed>>
    /\ UNCHANGED store_vars
    /\ UNCHANGED <<call, crawl_vars, app_vars>>

\* main.py 81-84: await server_task once the task is done.  CancelledError is
\* swallowed; an exception of the task is raised again and caught at line 85,
\* whose handler cancels (a no-op on a done task) and awaits once more.
AwaitOk ==
    /\ pc = "await_ok"
    /\ server_task \in {"cancelled", "finished", "failed"}
    /\ pc' = IF server_task = "failed" THEN "await_err" ELSE "fetch"
    /\ UNCHANGED <<now, server_task, latest_token, checked_at, path, discord, browser,
                   exit_code, closed>>
    /\ UNCHANGED store_vars
    /\ UNCHANGED <<call, crawl_vars, app_vars>>

\* AwaitErr without sys.exit(1): the flow falls through to the fetch phase.
AwaitErr_NoExit ==
    /\ pc = "await_err"
    /\ server_task \in {"cancelled", "finished", "failed"}
    /\ pc' = IF server_task = "failed" THEN "raised" ELSE "fetch"
    /\ exit_code' = IF server_task = "failed" THEN 1 ELSE exit_code
    /\ UNCHANGED <<now, server_task, latest_token, checked_at, path, discord, browser, closed>>
    /\ UNCHANGED store_vars
    /\ UNCHANGED <<call, crawl_vars, app_vars>>

\* main.py 88-92: await server_task in the handler, then sys.exit(1); an
\* exception of the task leaves the handler unhandled (exit status 1 as well).
AwaitErr ==
    /\ pc = "await_err"
    /\ server_task \in {"cancelled", "finished", "failed"}
    /\ pc' = IF server_task = "failed" THEN "raised" ELSE "exited"
    /\ exit_code' = 1
    /\ UNCHANGED <<now, server_task, latest_token, checked_at, path, discord, browser, closed>>
    /\ UNCHANGED store_vars
    /\ UNCHANGED <<call, crawl_vars, app_vars>>

\* main.py 94-104: the fetch phase and its ways out; discord.close() in finally.
FetchOutcomes == {"ok", "http_error", "keyboard_interrupt", "error"}

\* What may go wrong in fetch_and_print_messages: nothing, the guild listing
\* (line 110), create_guild (118), the channel listing (129), a message
\* fetch (147).
FetchStages == {"none", "guilds", "create_guild", "channels", "messages"}

\* An httpx.HTTPError (a status raise_for_status rejects, a transport
\* error), any other Exception (a body that is not JSON, a model that does
\* not validate), a KeyboardInterrupt.
FetchErrors == {"http", "other", "keyboard_interrupt"}

\* The handler an error ends in: the channel listing and the message fetches
\* sit in `try ... except Exception` (lines 127-134, 145-163) and the
\* function goes on; anything else leaves the function for lines 96-102.
FetchOutcome(stage, error) ==
    IF stage = "none" THEN "ok"
    ELSE IF error = "keyboard_interrupt" THEN "keyboard_interrupt"
    ELSE IF stage \in {"channels", "messages"} THEN "ok"
    ELSE IF error = "http" THEN "http_error"
    ELSE "error"

\* Fetch whose finally clause is skipped by sys.exit(1).
Fetch_NoCloseOnExit ==
    /\ pc = "fetch"
    /\ \E stage \in FetchStages, error \in FetchErrors \cup {"none"}, outcome \in FetchOutcomes :
          /\ (stage = "none") <=> (error = "none")
          /\ outcome = FetchOutcome(stage, error)
          /\ failure' = [stage |-> stage, error |-> error]
          /\ pc' = IF outcome = "error" THEN "exited" ELSE "done"
          /\ exit_code' = IF outcome = "error" THEN 1 ELSE 0
          /\ closed' = IF outcome = "error" THEN closed ELSE closed + 1
    /\ UNCHANGED <<now, server_task, latest_token, checked_at, path, discord, browser>>
    /\ UNCHANGED store_vars
    /\ UNCHANGED <<call, crawl_vars, request, index_vars, service_vars, loop_vars, client>>

Fetch ==
    /\ pc = "fetch"
    /\ \E stage \in FetchStages, error \in FetchErrors \cup {"none"}, outcome \in FetchOutcomes :
          /\ (stage = "none") <=> (error = "none")
          /\ outcome = FetchOutcome(stage, error)
          /\ failure' = [stage |-> stage, error |-> error]
          /\ pc' = IF outcome = "error" THEN "exited" ELSE "done"
          /\ exit_code' = IF outcome = "error" THEN 1 ELSE 0
    /\ closed' = closed + 1
    /\ UNCHANGED <<now, server_task, latest_token, checked_at, path, discord, browser>>
    /\ UNCHANGED store_vars
    /\ UNCHANGED <<call, crawl_vars, request, index_vars, service_vars, loop_vars, client>>


\* ------------------------------------------------------------- the receiver
\* The receiver task runs only while the flow is suspended at an await.
\* run_server: the task gets its first step and uvicorn serves.
ServerStart ==
    /\ Suspended
    /\ server_task = "pending"
    /\ server_task' = "running"
    /\ UNCHANGED <<now>>
    /\ UNCHANGED flow_vars
    /\ UNCHANGED store_vars
    /\ UNCHANGED <<call, crawl_vars, app_vars>>

\* server.serve() raises (the port cannot be bound, the server breaks).
ServerCrash ==
    /\ Suspended
    /\ server_task \in {"pending", "running"}
    /\ server_task' = "failed"
    /\ UNCHANGED <<now>>
    /\ UNCHANGED flow_vars
    /\ UNCHANGED store_vars
    /\ UNCHANGED <<call, crawl_vars, app_vars>>

\* server.serve() returns (the server was told to exit).
ServerStop ==
    /\ Suspended
    /\ server_task = "running"
    /\ server_task' = "finished"
    /\ UNCHANGED <<now>>
    /\ UNCHANGED flow_vars
    /\ UNCHANGED store_vars
    /\ UNCHANGED <<call, crawl_vars, app_vars>>

\* The cancellation requested by Task.cancel() reaches the task at its next step.
ServerCancelled ==
    /\ Suspended
    /\ server_task = "cancelling"
    /\ server_task' = "cancelled"
    /\ UNCHANGED <<now>>
    /\ UNCHANGED flow_vars
    /\ UNCHANGED store_vars
    /\ UNCHANGED <<call, crawl_vars, app_vars>>

\* oauth_server.py 61: token_id = str(len(token_manager._tokens) + 1); the
\* id n stands for the string str(n).
NewTokenId(tokens) == Len(tokens) + 1

\* oauth_server.py 51-58: expires_at is computed from a first reading t1 of the
\* clock, created_at is a second reading t2 taken when the model is built.
NewToken(n, expires_in, t1, t2) == TokenModel(n, expires_in, t1 + expires_in, t2)

\* TokenManager.save_token: the entry is set in memory; _save_tokens then
\* writes the memory (not reloaded) over the file.
save_token(tokens, id, tok) == DictSet(tokens, id, tok)

\* TokenManager.get_token: self._tokens.get(token_id), None as <<>>
get_token(tokens, id) ==
    IF id \in Ids(tokens)
    THEN <<tokens[CHOOSE i \in 1..Len(tokens) : tokens[i].id = id].tok>>
    ELSE <<>>

\* TokenManager.delete_token
delete_token(tokens, id) == IF id \in Ids(tokens) THEN DictDel(tokens, id) ELSE tokens

\* The clock may advance between the two readings of one callback.
Delays == {d \in 0..1 : now + d <= MaxTime}

\* oauth_server.py 42-73: a callback whose code exchange succeeds, one of at
\* most `budget` exchanges of the run.
CallbackWithin(budget) ==
    /\ Suspended
    /\ server_task = "running"
    /\ exchanges < budget
    /\ \E expires_in \in ExpiresIns, d \in Delays :
          LET tok == NewToken(issued + 1, expires_in, now, now + d)
              token_id == NewTokenId(rs_tokens)
              saved == save_token(rs_tokens, token_id, tok) IN
             /\ rs_tokens' = saved
             /\ file' = _save_tokens(saved)
             /\ response' = [status |-> 200, token_id |-> token_id]
             /\ now' = now + d
    /\ exchanges' = exchanges + 1
    /\ issued' = issued + 1
    /\ UNCHANGED <<ms_tokens, other_done, deletes, damaged, server_task>>
    /\ UNCHANGED flow_vars
    /\ UNCHANGED <<call, crawl_vars, app_vars>>

Callback == CallbackWithin(MaxExchanges)

\* What a _save_tokens that raises leaves of the file: the file as it was
\* (open(path, "w") raised) or a cut-short file (the write raised after the
\* open had truncated it).
FailedWrites(f) == {f, [ok |-> FALSE, data |-> <<>>]}

\* oauth_server.py 60-62, 74-77: the exchange succeeds, save_token sets the
\* entry in memory, _save_tokens raises (OSError); the callback answers 400.
CallbackSaveFail ==
    /\ Suspended
    /\ server_task = "running"
    /\ exchanges < MaxExchanges
    /\ \E expires_in \in ExpiresIns, d \in Delays, f \in FailedWrites(file) :
          LET tok == NewToken(issued + 1, expires_in, now, now + d)
              token_id == NewTokenId(rs_tokens) IN
             /\ rs_tokens' = save_token(rs_tokens, token_id, tok)
             /\ file' = f
             /\ now' = now + d
    /\ response' = [status |-> 400, token_id |-> 0]
    /\ exchanges' = exchanges + 1
    /\ issued' = issued + 1
    /\ call' = call
    /\ UNCHANGED <<ms_tokens, other_done, deletes, damaged, server_task>>
    /\ UNCHANGED flow_vars
    /\ UNCHANGED <<crawl_vars, app_vars>>

\* A failed exchange whose exception is not caught and ends the receiver task.
CallbackFailWithin_Crashes(budget) ==
    /\ Suspended
    /\ server_task = "running"
    /\ exchanges < budget
    /\ response' = [status |-> 400, token_id |-> 0]
    /\ exchanges' = exchanges + 1
    /\ server_task' = "failed"
    /\ UNCHANGED <<now, file, ms_tokens, rs_tokens, issued, other_done, deletes, damaged>>
    /\ UNCHANGED flow_vars
    /\ UNCHANGED <<call, crawl_vars, app_vars>>

\* oauth_server.py 74-77: the exchange raises, the callback answers 400.
CallbackFailWithin(budget) ==
    /\ Suspended
    /\ server_task = "running"
    /\ exchanges < budget
    /\ response' = [status |-> 400, token_id |-> 0]
    /\ exchanges' = exchanges + 1
    /\ UNCHANGED <<now, file, ms_tokens, rs_tokens, issued, other_done, deletes, damaged,
                   server_task>>
    /\ UNCHANGED flow_vars
    /\ UNCHANGED <<call, crawl_vars, app_vars>>

CallbackFail == CallbackFailWithin(MaxExchanges)

\* DeleteToken with _save_tokens called outside the `if`.
DeleteToken_AlwaysWrites ==
    /\ Suspended
    /\ deletes < MaxDeletes
    /\ \E id \in Ids(rs_tokens) \cup {NewTokenId(rs_tokens)} :
          /\ rs_tokens' = delete_token(rs_tokens, id)
          /\ file' = _save_tokens(delete_token(rs_tokens, id))
          /\ call' = [NoCall EXCEPT !.op = "delete_token", !.id = id]
    /\ deletes' = deletes + 1
    /\ UNCHANGED <<now, ms_tokens, response, exchanges, issued, other_done, damaged,
                   server_task>>
    /\ UNCHANGED flow_vars
    /\ UNCHANGED <<crawl_vars, app_vars>>

\* TokenManager.delete_token on the receiver's store, for a present id and
\* for an absent one; only a present id rewrites the file.
DeleteToken ==
    /\ Suspended
    /\ deletes < MaxDeletes
    /\ \E id \in Ids(rs_tokens) \cup {NewTokenId(rs_tokens)} :
          /\ rs_tokens' = delete_token(rs_tokens, id)
          /\ file' = IF id \in Ids(rs_tokens)
                     THEN _save_tokens(delete_token(rs_tokens, id)) ELSE file
          /\ call' = [NoCall EXCEPT !.op = "delete_token", !.id = id]
    /\ deletes' = deletes + 1
    /\ UNCHANGED <<now, ms_tokens, response, exchanges, issued, other_done, damaged,
                   server_task>>
    /\ UNCHANGED flow_vars
    /\ UNCHANGED <<crawl_vars, app_vars>>

\* ------------------------------------------------------------- the environment
Tick ==
    /\ Bootstrapping
    /\ now < MaxTime
    /\ now' = now + 1
    /\ UNCHANGED <<server_task>>
    /\ UNCHANGED flow_vars
    /\ UNCHANGED store_vars
    /\ UNCHANGED <<call, crawl_vars, app_vars>>

\* The same callback served by another process (oauth_server.start_server):
\* its TokenManager is constructed from the file as it is now.
OtherCallback ==
    /\ Bootstrapping
    /\ file.ok
    /\ ~other_done
    /\ \E expires_in \in ExpiresIns, d \in Delays :
          LET tok == NewToken(issued + 1, expires_in, now, now + d)
              other == _load_tokens(<<>>, file)
              saved == save_token(other, NewTokenId(other), tok) IN
             /\ file' = _save_tokens(saved)
             /\ now' = now + d
    /\ issued' = issued + 1
    /\ other_done' = TRUE
    /\ UNCHANGED <<ms_tokens, rs_tokens, response, exchanges, deletes, damaged, server_task>>
    /\ UNCHANGED flow_vars
    /\ UNCHANGED <<call, crawl_vars, app_vars>>

\* The file is damaged from outside (hand-edited, cut short): json.load fails on it.
DamageFile ==
    /\ pc \in {"poll", "sleep"}
    /\ ~damaged
    /\ file' = [ok |-> FALSE, data |-> <<>>]
    /\ damaged' = TRUE
    /\ UNCHANGED <<now, ms_tokens, rs_tokens, response, exchanges, issued, other_done,
                   deletes, server_task>>
    /\ UNCHANGED flow_vars
    /\ UNCHANGED <<call, crawl_vars, app_vars>>

Next ==
    \/ EntryCheck
    \/ Authorize
    \/ Poll
    \/ PollRaise
    \/ Wake
    \/ AwaitOk
    \/ AwaitErr
    \/ Fetch
    \/ ServerStart
    \/ ServerCrash
    \/ ServerStop
    \/ ServerCancelled
    \/ Callback
    \/ CallbackFail
    \/ Tick
    \/ OtherCallback
    \/ DamageFile

Spec == Init /\ [][Next]_vars

\* The event loop keeps running the flow and hands the receiver task its
\* first step and its cancellation; nothing is assumed of the clock, of
\* callbacks or of the world outside.
MainFlow ==
    EntryCheck \/ Authorize \/ Poll \/ PollRaise \/ Wake \/ AwaitOk \/ AwaitErr \/ Fetch

FairSpec ==
    Spec /\ WF_vars(MainFlow) /\ WF_vars(ServerStart) /\ WF_vars(ServerCancelled)

\* The receiver's store under callbacks, deletions, another process's
\* callbacks and the clock.
StoreNext ==
    \/ Callback
    \/ CallbackFail
    \/ CallbackSaveFail
    \/ DeleteToken
    \/ OtherCallback
    \/ Tick

StoreSpec == StoreInit /\ [][StoreNext]_vars

\* ------------------------------------------------------------- the TokenManager API
\* Credentials save_token is called with: two created at the same clock
\* reading, one without expires_at.
Creds ==
    { TokenModel(1, 2, 4, 2),
      TokenModel(2, 2, 4, 2),
      TokenModel(3, 1, None, 1) }

\* The frame of a call on the API of one TokenManager.
ApiFrame ==
    /\ UNCHANGED <<ms_tokens, response, exchanges, issued, other_done, deletes, damaged,
                   server_task>>
    /\ UNCHANGED flow_vars
    /\ UNCHANGED <<crawl_vars, app_vars>>

\* save_token without the call of _save_tokens.
SaveToken_MemoryOnly ==
    /\ \E id \in 1..MaxStore, tok \in Creds :
          /\ rs_tokens' = save_token(rs_tokens, id, tok)
          /\ file' = file
          /\ call' = [NoCall EXCEPT !.op = "save_token", !.id = id, !.tok = <<tok>>]
    /\ now' = now
    /\ ApiFrame

\* TokenManager.save_token(token_id, token_data)
SaveToken ==
    /\ \E id \in 1..MaxStore, tok \in Creds :
          /\ rs_tokens' = save_token(rs_tokens, id, tok)
          /\ file' = _save_tokens(save_token(rs_tokens, id, tok))
          /\ call' = [NoCall EXCEPT !.op = "save_token", !.id = id, !.tok = <<tok>>]
    /\ now' = now
    /\ ApiFrame

\* TokenManager.get_latest_token()
GetLatestToken ==
    /\ call' = [NoCall EXCEPT !.op = "get_latest_token",
                              !.ret = get_latest_token(rs_tokens)]
    /\ UNCHANGED <<now, file, rs_tokens>>
    /\ ApiFrame

\* TokenModel.is_expired() of a stored credential
IsExpired ==
    /\ \E tok \in Toks(rs_tokens) :
          call' = [NoCall EXCEPT !.op = "is_expired", !.tok = <<tok>>, !.t = now,
                                 !.ret = <<is_expired(tok, now)>>]
    /\ UNCHANGED <<now, file, rs_tokens>>
    /\ ApiFrame

\* TokenManager(): a fresh manager, its store loaded from the file
NewManager ==
    /\ file.ok
    /\ rs_tokens' = _load_tokens(<<>>, file)
    /\ call' = [NoCall EXCEPT !.op = "__init__"]
    /\ UNCHANGED <<now, file>>
    /\ ApiFrame

ManagerNext ==
    \/ SaveToken
    \/ DeleteToken
    \/ GetLatestToken
    \/ IsExpired
    \/ NewManager
    \/ Tick

\* One TokenManager driven through its API, no other writer of the file.
ManagerSpec == StoreInit /\ [][ManagerNext]_vars

\* ------------------------------------------------------------- callbacks tried again
\* Token exchanges the receiver attempts when the user tries again after a
\* refused one.
MaxRetries == 2

RetryCallback == CallbackWithin(MaxRetries)

RetryCallbackFail == CallbackFailWithin(MaxRetries)

RetryNext ==
    \/ EntryCheck
    \/ Authorize
    \/ Poll
    \/ PollRaise
    \/ Wake
    \/ AwaitOk
    \/ AwaitErr
    \/ Fetch
    \/ ServerStart
    \/ ServerCrash
    \/ ServerStop
    \/ ServerCancelled
    \/ RetryCallback
    \/ RetryCallbackFail
    \/ Tick
    \/ OtherCallback
    \/ DamageFile

\* The bootstrap with room for a callback after a refused one.
RetrySpec == Init /\ [][RetryNext]_vars

\* ------------------------------------------------------------- the save on the event loop
\* The receiver is inside _save_tokens, between open(path, 'w') and the end
\* of json.dump.
Saving == call.op = "_save_tokens"

\* A _save_tokens that awaits between the open and the write: the loop is
\* free for other tasks while the file is cut short.
LoopHeld_SaveAwaits == FALSE

\* token_storage.py 49-59 has no await: the task that runs the callback
\* keeps the event loop from the open to the return of _save_tokens.
LoopHeld == Saving

\* oauth_server.py 36-50, token_storage.py 61-64, 58: the exchange has
\* succeeded, save_token sets the entry in memory and _save_tokens opens the
\* file for writing, which cuts it to nothing.
SaveOpen ==
    /\ Suspended
    /\ ~Saving
    /\ server_task = "running"
    /\ exchanges < MaxExchanges
    /\ \E expires_in \in ExpiresIns, d \in Delays :
          LET tok == NewToken(issued + 1, expires_in, now, now + d)
              token_id == NewTokenId(rs_tokens) IN
             /\ rs_tokens' = save_token(rs_tokens, token_id, tok)
             /\ call' = [NoCall EXCEPT !.op = "_save_tokens", !.id = token_id]
             /\ now' = now + d
    /\ file' = [ok |-> FALSE, data |-> <<>>]
    /\ exchanges' = exchanges + 1
    /\ issued' = issued + 1
    /\ UNCHANGED <<ms_tokens, response, other_done, deletes, damaged, server_task>>
    /\ UNCHANGED flow_vars
    /\ UNCHANGED <<crawl_vars, app_vars>>

\* token_storage.py 59, oauth_server.py 53-62: json.dump writes the whole
\* store, the file is closed and the callback answers.
SaveDump ==
    /\ Saving
    /\ file' = _save_tokens(rs_tokens)
    /\ response' = [status |-> 200, token_id |-> call.id]
    /\ call' = NoCall
    /\ UNCHANGED <<now, ms_tokens, rs_tokens, exchanges, issued, other_done, deletes,
                   damaged, server_task>>
    /\ UNCHANGED flow_vars
    /\ UNCHANGED <<crawl_vars, app_vars>>

\* A step of the flow, taken when no other task holds the loop.
LoopMain == ~LoopHeld /\ MainFlow

\* A step of the receiver task outside a callback.
LoopServer == ~LoopHeld /\ (ServerStart \/ ServerCancelled)

LoopNext ==
    \/ LoopMain
    \/ LoopServer
    \/ SaveOpen
    \/ SaveDump
    \/ Tick

\* The bootstrap at the grain of the file operations of a save.
LoopSpec == Init /\ [][LoopNext]_vars

\* ------------------------------------------------------------- loading the store
\* Stores other actors leave in the file: none, one entry, two entries, the
\* second entry alone, the first entry with another credential.
EditedStores ==
    { <<>>,
      <<Entry(1, OldValid)>>,
      <<Entry(1, OldValid), Entry(2, OldExpired)>>,
      <<Entry(2, OldExpired)>>,
      <<Entry(1, OldExpired)>> }

\* A file json.load fails on.
Unparsable == [ok |-> FALSE, data |-> <<>>]

LoadFiles == {_save_tokens(st) : st \in EditedStores} \cup {Unparsable}

\* The frame of a step on one TokenStorage and its file.
LoadFrame ==
    /\ UNCHANGED <<now, rs_tokens, response, exchanges, issued, other_done, deletes,
                   damaged, server_task>>
    /\ UNCHANGED <<latest_token, checked_at, path, discord, browser, exit_code, closed>>
    /\ UNCHANGED <<crawl_vars, request, index_vars, extra_vars>>
    /\ UNCHANGED <<_messages, rag_service, fetches, builds, log>>

\* TokenStorage(): self._tokens = {} and then _load_tokens(); json.load
\* raises on an unparsable file and no instance comes to be.
Construct ==
    /\ pc = "new"
    /\ IF file.ok
       THEN /\ ms_tokens' = _load_tokens(<<>>, file)
            /\ result' = NoResult
            /\ pc' = "loaded"
       ELSE /\ ms_tokens' = ms_tokens
            /\ result' = [NoResult EXCEPT !.raised = "JSONDecodeError"]
            /\ pc' = "raised"
    /\ call' = [NoCall EXCEPT !.op = "__init__"]
    /\ file' = file
    /\ LoadFrame

\* Reload that answers an unparsable file with an empty store.
Reload_ResetsOnError ==
    /\ pc = "loaded"
    /\ IF file.ok
       THEN /\ ms_tokens' = _load_tokens(ms_tokens, file)
            /\ result' = NoResult
       ELSE /\ ms_tokens' = <<>>
            /\ result' = NoResult
    /\ call' = [NoCall EXCEPT !.op = "_load_tokens"]
    /\ UNCHANGED <<pc, file>>
    /\ LoadFrame

\* token_storage._load_tokens() on the instance: the entries of the file are
\* assigned into self._tokens; on an unparsable file json.load raises before
\* any assignment.  The file is opened for reading.
Reload ==
    /\ pc = "loaded"
    /\ IF file.ok
       THEN /\ ms_tokens' = _load_tokens(ms_tokens, file)
            /\ result' = NoResult
       ELSE /\ ms_tokens' = ms_tokens
            /\ result' = [NoResult EXCEPT !.raised = "JSONDecodeError"]
    /\ call' = [NoCall EXCEPT !.op = "_load_tokens"]
    /\ UNCHANGED <<pc, file>>
    /\ LoadFrame

\* get_token(token_id) on the instance
LoadedGetToken ==
    /\ pc = "loaded"
    /\ \E id \in 1..MaxStore :
          call' = [NoCall EXCEPT !.op = "get_token", !.id = id,
                                 !.ret = get_token(ms_tokens, id)]
    /\ result' = NoResult
    /\ UNCHANGED <<pc, file, ms_tokens>>
    /\ LoadFrame

\* get_latest_token() on the instance
LoadedGetLatestToken ==
    /\ pc = "loaded"
    /\ call' = [NoCall EXCEPT !.op = "get_latest_token",
                              !.ret = get_latest_token(ms_tokens)]
    /\ result' = NoResult
    /\ UNCHANGED <<pc, file, ms_tokens>>
    /\ LoadFrame

\* Another actor rewrites the file, or leaves it unparsable.
ExternalEdit ==
    /\ \E f \in LoadFiles : file' = f
    /\ call' = NoCall
    /\ result' = NoResult
    /\ UNCHANGED <<pc, ms_tokens>>
    /\ LoadFrame

\* Before TokenStorage() is called, on any of the files.
LoadInit ==
    /\ now = 2
    /\ file \in LoadFiles
    /\ ms_tokens = <<>>
    /\ rs_tokens = <<>>
    /\ latest_token = <<>>
    /\ checked_at = None
    /\ path = ""
    /\ discord = NoClient
    /\ browser = FALSE
    /\ exit_code = None
    /\ closed = 0
    /\ response = [status |-> 0, token_id |-> 0]
    /\ exchanges = 0
    /\ issued = 0
    /\ other_done = FALSE
    /\ deletes = 0
    /\ damaged = FALSE
    /\ pc = "new"
    /\ server_task = "none"
    /\ call = NoCall
    /\ NoCrawl
    /\ NoApp

LoadNext ==
    \/ Construct
    \/ Reload
    \/ LoadedGetToken
    \/ LoadedGetLatestToken
    \/ ExternalEdit

\* One TokenStorage, constructed and reloaded, while other actors edit the file.
LoadSpec == LoadInit /\ [][LoadNext]_vars

\* ------------------------------------------------------------- the crawl
ChannelModel(id, type) == [id |-> id, type |-> type]

\* What the upstream API lists for guild g: an odd guild has three text
\* channels (type 0) and a voice channel (type 2), an even guild one text channel.
GuildChannels(g) ==
    IF g % 2 = 1
    THEN <<ChannelModel(10 * g + 1, 0), ChannelModel(10 * g + 2, 0),
           ChannelModel(10 * g + 3, 2), ChannelModel(10 * g + 4, 0)>>
    ELSE <<ChannelModel(10 * g + 1, 0)>>

\* What the upstream API returns for the messages of channel c.
ChannelMessages(c) ==
    <<[id |-> 10 * c + 1, channel_id |-> c], [id |-> 10 * c + 2, channel_id |-> c]>>

\* Guild listings the upstream API may answer with: guilds of 1..MaxGuilds,
\* none of them twice, in any order.
GuildListings ==
    {l \in UNION {[1..n -> 1..MaxGuilds] : n \in 0..MaxGuilds} :
        \A i, j \in DOMAIN l : l[i] = l[j] => i = j}

\* The listing kept whole, channels of every kind.
TextChannels_Unfiltered(chs) == chs

\* [channel for channel in channels if channel.type == 0]
TextChannels(chs) == SelectSeq(chs, LAMBDA ch : ch.type = 0)

\* A process that crawls: DiscordService.fetch_messages_from_all_guilds or
\* main.async_main_bot_flow, before its guild listing.
CrawlInit ==
    /\ InitCommon
    /\ pc = "crawl"
    /\ server_task = "none"
    /\ call = NoCall
    /\ flow \in {"service", "bot"}
    /\ cpc = "guilds"
    /\ guilds = <<>>
    /\ gi = 0
    /\ channels = <<>>
    /\ ci = 0
    /\ guild_messages = <<>>
    /\ all_messages = <<>>
    /\ attempted = <<>>
    /\ failed_channels = {}
    /\ failed_guilds = {}
    /\ NoApp

Outcomes == {"ok", "error"}

\* discord_service.py 78-79: guilds = await self.get_all_guilds(); an error
\* leaves fetch_messages_from_all_guilds.
GetAllGuilds ==
    /\ flow = "service"
    /\ cpc = "guilds"
    /\ \E outcome \in Outcomes, listing \in GuildListings :
          IF outcome = "ok"
          THEN /\ guilds' = listing
               /\ gi' = 1
               /\ cpc' = IF listing = <<>> THEN "returned" ELSE "channels"
          ELSE /\ cpc' = "raised"
               /\ UNCHANGED <<guilds, gi>>
    /\ UNCHANGED <<flow, channels, ci, guild_messages, all_messages, attempted,
                   failed_channels, failed_guilds>>
    /\ UNCHANGED <<oauth_vars, call, app_vars>>

\* discord_service.py 59-62, 82: fetch_messages_from_guild lists the channels
\* of guilds[gi]; an error leaves it, and leaves fetch_messages_from_all_guilds,
\* which does not catch it.
GetGuildChannels ==
    /\ flow = "service"
    /\ cpc = "channels"
    /\ \E outcome \in Outcomes :
          IF outcome = "ok"
          THEN /\ channels' = TextChannels(GuildChannels(guilds[gi]))
               /\ ci' = 1
               /\ guild_messages' = <<>>
               /\ cpc' = "messages"
               /\ UNCHANGED failed_guilds
          ELSE /\ failed_guilds' = failed_guilds \cup {guilds[gi]}
               /\ cpc' = "raised"
               /\ UNCHANGED <<channels, ci, guild_messages>>
    /\ UNCHANGED <<flow, guilds, gi, all_messages, attempted, failed_channels>>
    /\ UNCHANGED <<oauth_vars, call, app_vars>>


\* GetChannelMessages without the try/except around the fetch.
GetChannelMessages_Raises ==
    /\ flow = "service"
    /\ cpc = "messages"
    /\ ci <= Len(channels)
    /\ attempted' = Append(attempted, channels[ci].id)
    /\ \E outcome \in Outcomes :
          IF outcome = "ok"
          THEN /\ guild_messages' = guild_messages \o ChannelMessages(channels[ci].id)
               /\ ci' = ci + 1
               /\ UNCHANGED <<failed_channels, cpc>>
          ELSE /\ failed_channels' = failed_channels \cup {channels[ci].id}
               /\ cpc' = "raised"
               /\ UNCHANGED <<guild_messages, ci>>
    /\ UNCHANGED <<flow, guilds, gi, channels, all_messages, failed_guilds>>
    /\ UNCHANGED <<oauth_vars, call, app_vars>>

\* discord_service.py 63-70: one iteration over text_channels; an error of
\* get_channel_messages is caught and printed, the loop goes on.
GetChannelMessages ==
    /\ flow = "service"
    /\ cpc = "messages"
    /\ ci <= Len(channels)
    /\ attempted' = Append(attempted, channels[ci].id)
    /\ \E outcome \in Outcomes :
          IF outcome = "ok"
          THEN /\ guild_messages' = guild_messages \o ChannelMessages(channels[ci].id)
               /\ UNCHANGED failed_channels
          ELSE /\ failed_channels' = failed_channels \cup {channels[ci].id}
               /\ UNCHANGED guild_messages
    /\ ci' = ci + 1
    /\ UNCHANGED <<flow, cpc, guilds, gi, channels, all_messages, failed_guilds>>
    /\ UNCHANGED <<oauth_vars, call, app_vars>>

\* discord_service.py 72, 85-87: fetch_messages_from_guild returns, its
\* messages are appended, the loop over guilds goes on or the crawl returns.
GuildReturn ==
    /\ flow = "service"
    /\ cpc = "messages"
    /\ ci > Len(channels)
    /\ all_messages' = all_messages \o guild_messages
    /\ gi' = gi + 1
    /\ cpc' = IF gi + 1 > Len(guilds) THEN "returned" ELSE "channels"
    /\ UNCHANGED <<flow, guilds, channels, ci, guild_messages, attempted,
                   failed_channels, failed_guilds>>
    /\ UNCHANGED <<oauth_vars, call, app_vars>>

\* main.py 169-174: the guild listing of async_main_bot_flow; no guilds, return.
BotGetGuilds ==
    /\ flow = "bot"
    /\ cpc = "guilds"
    /\ \E outcome \in Outcomes, listing \in GuildListings :
          IF outcome = "ok"
          THEN /\ guilds' = listing
               /\ gi' = 1
               /\ cpc' = IF listing = <<>> THEN "returned" ELSE "channels"
          ELSE /\ cpc' = "raised"
               /\ UNCHANGED <<guilds, gi>>
    /\ UNCHANGED <<flow, channels, ci, guild_messages, all_messages, attempted,
                   failed_channels, failed_guilds>>
    /\ UNCHANGED <<oauth_vars, call, app_vars>>

\* main.py 175-185: one iteration of `for guild in guilds`: the listing is
\* assigned to `channels`, replacing the listing of the guild before; no
\* channels, return; an error is caught and `channels` keeps its value.
\* After the last guild the text channels of `channels` are kept.
BotGetGuildChannels ==
    /\ flow = "bot"
    /\ cpc = "channels"
    /\ \E outcome \in Outcomes :
          LET listed == IF outcome = "ok" THEN GuildChannels(guilds[gi]) ELSE channels
              last == gi + 1 > Len(guilds) IN
             /\ failed_guilds' = IF outcome = "ok" THEN failed_guilds
                                 ELSE failed_guilds \cup {guilds[gi]}
             /\ IF outcome = "ok" /\ listed = <<>>
                THEN /\ cpc' = "returned"
                     /\ channels' = listed
                     /\ UNCHANGED <<gi, ci>>
                ELSE /\ channels' = IF last THEN TextChannels(listed) ELSE listed
                     /\ gi' = gi + 1
                     /\ ci' = IF last THEN 1 ELSE ci
                     /\ cpc' = IF last THEN "messages" ELSE "channels"
    /\ UNCHANGED <<flow, guilds, guild_messages, all_messages, attempted, failed_channels>>
    /\ UNCHANGED <<oauth_vars, call, app_vars>>

\* main.py 187-194: one iteration of `for channel in channels`.
BotGetChannelMessages ==
    /\ flow = "bot"
    /\ cpc = "messages"
    /\ ci <= Len(channels)
    /\ attempted' = Append(attempted, channels[ci].id)
    /\ \E outcome \in Outcomes :
          IF outcome = "ok"
          THEN /\ all_messages' = all_messages \o ChannelMessages(channels[ci].id)
               /\ UNCHANGED failed_channels
          ELSE /\ failed_channels' = failed_channels \cup {channels[ci].id}
               /\ UNCHANGED all_messages
    /\ ci' = ci + 1
    /\ UNCHANGED <<flow, cpc, guilds, gi, channels, guild_messages, failed_guilds>>
    /\ UNCHANGED <<oauth_vars, call, app_vars>>

\* main.py 196-198: all_messages goes to the MessageProcessor and is indexed.
BotIndex ==
    /\ flow = "bot"
    /\ cpc = "messages"
    /\ ci > Len(channels)
    /\ cpc' = "indexed"
    /\ UNCHANGED <<flow, guilds, gi, channels, ci, guild_messages, all_messages,
                   attempted, failed_channels, failed_guilds>>
    /\ UNCHANGED <<oauth_vars, call, app_vars>>

\* Lines the query loop reads in one run.
MaxQueries == 2

\* The candidates the loop asks for: top_k=10 at main.py 206.
BotTopK == 10

\* What the user types at the threshold prompt, in tenths: two thresholds in
\* range and one above 1.0.
MinScoreInputs == {0, 5, 11}

\* What the user types at the query prompt.
QueryLines == {"stop", "who said hi"}

\* The similarity the provider finds between a query and a message, in tenths.
Similarity(q, id) == IF q = "stop" THEN (id % 3) * 4 ELSE (id % 2) * 9

\* The messages of an index, the most similar to q first.
RECURSIVE BotRanked(_, _)
BotRanked(ids, q) ==
    IF ids = {} THEN <<>>
    ELSE LET best == CHOOSE i \in ids :
                        \A o \in ids : \/ Similarity(q, o) < Similarity(q, i)
                                       \/ (Similarity(q, o) = Similarity(q, i) /\ i <= o) IN
            <<best>> \o BotRanked(ids \ {best}, q)

\* MessageProcessor.query_discord_messages(index, query, top_k)
query_discord_messages(msgs, q, top_k) ==
    LET ranked == BotRanked({msgs[i].id : i \in 1..Len(msgs)}, q) IN
        [i \in 1..Min(top_k, Len(ranked)) |->
            [message_id |-> ranked[i], score |-> Similarity(q, ranked[i])]]

\* main.py 199-202: the threshold is read until it lies in 0.0..1.0.
BotMinScore ==
    /\ flow = "bot"
    /\ cpc = "indexed"
    /\ \E v \in MinScoreInputs :
          IF v < 0 \/ v > 10
          THEN UNCHANGED <<bot_min_score, cpc>>
          ELSE bot_min_score' = v /\ cpc' = "query"
    /\ UNCHANGED <<query, printed, queries>>
    /\ UNCHANGED <<flow, guilds, gi, channels, ci, guild_messages, all_messages,
                   attempted, failed_channels, failed_guilds>>
    /\ UNCHANGED <<oauth_vars, call, request, index_vars, service_vars, failure, client>>

\* main.py 204-217: one iteration of `while True`: a line is read, used as
\* the query whatever it says, and the results at or above the threshold
\* are printed.
BotQuery ==
    /\ flow = "bot"
    /\ cpc = "query"
    /\ queries < MaxQueries
    /\ \E line \in QueryLines :
          /\ query' = line
          /\ printed' = SelectSeq(query_discord_messages(all_messages, line, BotTopK),
                                  LAMBDA r : r.score >= bot_min_score)
    /\ queries' = queries + 1
    /\ UNCHANGED <<bot_min_score, cpc>>
    /\ UNCHANGED <<flow, guilds, gi, channels, ci, guild_messages, all_messages,
                   attempted, failed_channels, failed_guilds>>
    /\ UNCHANGED <<oauth_vars, call, request, index_vars, service_vars, failure, client>>

\* main.py 205, 224-227: input() raises KeyboardInterrupt (Ctrl-C), which
\* leaves the loop and the flow; main() prints and returns.
BotInterrupt ==
    /\ flow = "bot"
    /\ cpc = "query"
    /\ cpc' = "interrupted"
    /\ UNCHANGED <<bot_min_score, query, printed, queries>>
    /\ UNCHANGED <<flow, guilds, gi, channels, ci, guild_messages, all_messages,
                   attempted, failed_channels, failed_guilds>>
    /\ UNCHANGED <<oauth_vars, call, request, index_vars, service_vars, failure, client>>

CrawlNext ==
    \/ GetAllGuilds
    \/ GetGuildChannels
    \/ GetChannelMessages
    \/ GuildReturn
    \/ BotGetGuilds
    \/ BotGetGuildChannels
    \/ BotGetChannelMessages
    \/ BotIndex
    \/ BotMinScore
    \/ BotQuery
    \/ BotInterrupt

CrawlSpec == CrawlInit /\ [][CrawlNext]_vars

\* ------------------------------------------------------------- the client
\* Discord's maximum page size, the second argument of min().
MaxLimit == 100

\* The default of the limit parameter.
DefaultLimit == 50

\* Limits a caller passes: the default, both sides of the maximum, and
\* integers no page size can be.
Limits == {-1, 0, DefaultLimit, MaxLimit, MaxLimit + 1, 10 * MaxLimit}

\* Cursors a caller passes: None (the default), the empty string, message ids.
Cursors == {<<>>, <<"">>, <<"m1">>, <<"m2">>}

\* Python's truth value of an Optional[str]: None and "" are false.
Truthy(c) == c # <<>> /\ c[1] # ""

\* params with every cursor the caller passed, one `if` each.
params_EveryCursor(limit, before, after, around) ==
    <<<<"limit", Min(limit, MaxLimit)>>>>
    \o (IF Truthy(before) THEN <<<<"before", before[1]>>>> ELSE <<>>)
    \o (IF Truthy(after) THEN <<<<"after", after[1]>>>> ELSE <<>>)
    \o (IF Truthy(around) THEN <<<<"around", around[1]>>>> ELSE <<>>)

\* params with the caller's limit as it came.
params_NoClamp(limit, before, after, around) ==
    <<<<"limit", limit>>>>
    \o (IF Truthy(before) THEN <<<<"before", before[1]>>>>
        ELSE IF Truthy(after) THEN <<<<"after", after[1]>>>>
        ELSE IF Truthy(around) THEN <<<<"around", around[1]>>>>
        ELSE <<>>)

\* The query parameters get_channel_messages builds, a dict in insertion
\* order: params = {"limit": min(limit, 100)}, then if/elif/elif.
params(limit, before, after, around) ==
    <<<<"limit", Min(limit, MaxLimit)>>>>
    \o (IF Truthy(before) THEN <<<<"before", before[1]>>>>
        ELSE IF Truthy(after) THEN <<<<"after", after[1]>>>>
        ELSE IF Truthy(around) THEN <<<<"around", around[1]>>>>
        ELSE <<>>)

\* Tokens a client is constructed with: None, the empty string, a token.
Tokens == {<<>>, <<"">>, <<"tok">>}

TokenTypes == {"BOT", "USER"}

\* The headers with the bot style whatever the credential kind.
headers_AlwaysBot(token, token_type) ==
    IF Truthy(token)
    THEN <<<<"Authorization", "Bot " \o token[1]>>, <<"Content-Type", "application/json">>>>
    ELSE <<<<"Content-Type", "application/json">>>>

\* discord_client.py 32-38: self.headers, a dict in insertion order.
headers(token, token_type) ==
    IF Truthy(token)
    THEN <<<<"Authorization",
             (IF token_type = "BOT" THEN "Bot" ELSE "Bearer") \o " " \o token[1]>>,
           <<"Content-Type", "application/json">>>>
    ELSE <<<<"Content-Type", "application/json">>>>

\* DiscordClient(token=token, token_type=token_type): the httpx client is
\* built once with self.headers and sends them with every request.
DiscordClient(token, token_type) ==
    [token |-> token, token_type |-> token_type, headers |-> headers(token, token_type)]

\* One call of get_channel_messages: the request goes out with params, and
\* raise_for_status() passes or raises on the answer.
GetChannelMessagesCall ==
    /\ \E limit \in Limits, before \in Cursors, after \in Cursors, around \in Cursors,
          outcome \in Outcomes :
          request' = [status |-> outcome, limit |-> limit, before |-> before,
                      after |-> after, around |-> around,
                      sent |-> params(limit, before, after, around),
                      headers |-> client.headers]
    /\ UNCHANGED <<oauth_vars, call, crawl_vars, index_vars, service_vars, extra_vars>>

\* A client before its first get_channel_messages call, in a process whose
\* store file holds no credential.
ClientInit ==
    /\ InitCommon
    /\ file = _save_tokens(<<>>)
    /\ pc = "client"
    /\ server_task = "none"
    /\ call = NoCall
    /\ NoCrawl
    /\ request = NoRequest
    /\ NoIndexing
    /\ NoService
    /\ NoLoop
    /\ failure = NoFailure
    /\ \E token \in Tokens, token_type \in TokenTypes :
          client = DiscordClient(token, token_type)

ClientNext == GetChannelMessagesCall

\* A caller paging through a channel with a DiscordClient.
ClientSpec == ClientInit /\ [][ClientNext]_vars

\* ------------------------------------------------------------- the indexer
\* Longest message list handed to an indexer.
MaxMessages == 3

\* A Python dict whose values are dicts or lists: items in insertion order.
Item(k, v) == [key |-> k, value |-> v]

Keys(d) == {d[i].key : i \in 1..Len(d)}

\* d[k] for a key that is present
Lookup(d, k) == d[CHOOSE i \in 1..Len(d) : d[i].key = k].value

\* A list in place of the dict: every assignment adds an item.
DictPut_Append(d, k, v) == Append(d, Item(k, v))

\* d[k] = v : a present key keeps its place and takes the value, a new key
\* goes to the end.
DictPut(d, k, v) ==
    IF k \in Keys(d)
    THEN [i \in 1..Len(d) |-> IF d[i].key = k THEN Item(k, v) ELSE d[i]]
    ELSE Append(d, Item(k, v))

\* A message object of the upstream API: a reply carries message_reference,
\* any other message has no such key.
ApiMessage(id, username, content) ==
    [id |-> id, content |-> content, author |-> [username |-> username]]

Reply(msg, parent_id) == msg @@ [message_reference |-> [message_id |-> parent_id]]

\* A message, two replies to it, a reply to a reply, a reply to a message
\* outside the fetch window, and the first message again after an edit.
ApiMessages ==
    { ApiMessage("A", "x", "hi"),
      Reply(ApiMessage("B", "y", "yo"), "A"),
      Reply(ApiMessage("C", "z", "ok"), "B"),
      Reply(ApiMessage("D", "w", "eh"), "Z"),
      Reply(ApiMessage("E", "v", "no"), "A"),
      ApiMessage("A", "x", "hi!") }

MessageLists == UNION {[1..n -> ApiMessages] : n \in 0..MaxMessages}

\* models/discord_models.py and client/discord_api.py: MessageModel(**message).
\* The model declares no message_reference field and pydantic ignores the
\* keys a model does not declare.
MessageModel(message) ==
    [id |-> message.id, content |-> message.content,
     author |-> [username |-> message.author.username]]

\* msg.model_dump(): the declared fields, nested models as dicts.
model_dump(msg) ==
    [id |-> msg.id, content |-> msg.content, author |-> [username |-> msg.author.username]]

\* RAGService.process_messages / MessageProcessor.process_messages
RECURSIVE process_messages_loop(_, _)
process_messages_loop(message_dict, msgs) ==
    IF msgs = <<>> THEN message_dict
    ELSE process_messages_loop(DictPut(message_dict, Head(msgs).id, model_dump(Head(msgs))),
                               Tail(msgs))

process_messages(msgs) == process_messages_loop(<<>>, msgs)

\* rag_service.py 35-42: the text of the node of msg_data;
\* msg_data.get("message_reference") is None for a dict without the key.
NodeText(processed, msg_data) ==
    LET text == msg_data.author.username \o " said: " \o msg_data.content IN
        IF "message_reference" \in DOMAIN msg_data
        THEN LET parent_id == msg_data.message_reference.message_id IN
                IF parent_id \in Keys(processed)
                THEN text \o "\n[In reply to "
                          \o Lookup(processed, parent_id).author.username
                          \o " who said: " \o Lookup(processed, parent_id).content \o "]"
                ELSE text
        ELSE text

\* RAGService.create_index / MessageProcessor.create_llama_index: one node
\* for each item of processed_data, in its order.
create_index(processed) ==
    [i \in 1..Len(processed) |->
        [text |-> NodeText(processed, processed[i].value), message_id |-> processed[i].key]]

\* playground/rag_llama_index_faiss.py: MessageModel with
\* message_reference: MessageReferenceModel = None; <<>> for None.
playground_MessageModel(message) ==
    [id |-> message.id, content |-> message.content,
     author |-> [username |-> message.author.username],
     message_reference |-> IF "message_reference" \in DOMAIN message
                           THEN <<[message_id |-> message.message_reference.message_id]>>
                           ELSE <<>>]

\* MessageModel.to_dict of the playground: the author by name, refers_to only
\* for a reply.
to_dict(msg) ==
    IF msg.message_reference # <<>>
    THEN [id |-> msg.id, content |-> msg.content, author |-> msg.author.username,
          refers_to |-> msg.message_reference[1].message_id]
    ELSE [id |-> msg.id, content |-> msg.content, author |-> msg.author.username]

\* The thread bookkeeping of the first pass with entries only for parents
\* already stored in message_dict.
track_thread_KnownParents(message_dict, thrds, msg) ==
    IF msg.message_reference # <<>>
       /\ msg.message_reference[1].message_id \in Keys(message_dict)
    THEN LET parent_id == msg.message_reference[1].message_id IN
            DictPut(thrds, parent_id,
                    Append(IF parent_id \in Keys(thrds) THEN Lookup(thrds, parent_id)
                           ELSE <<>>, msg.id))
    ELSE thrds

\* playground 93-97: if msg.message_reference: threads[parent_id] is created
\* when absent and msg.id appended to it.
track_thread(message_dict, thrds, msg) ==
    IF msg.message_reference # <<>>
    THEN LET parent_id == msg.message_reference[1].message_id IN
            DictPut(thrds, parent_id,
                    Append(IF parent_id \in Keys(thrds) THEN Lookup(thrds, parent_id)
                           ELSE <<>>, msg.id))
    ELSE thrds

\* playground 89-97: the first pass over the messages.
RECURSIVE first_pass(_, _, _)
first_pass(message_dict, thrds, msgs) ==
    IF msgs = <<>> THEN [messages |-> message_dict, threads |-> thrds]
    ELSE first_pass(DictPut(message_dict, Head(msgs).id, to_dict(Head(msgs))),
                    track_thread(DictPut(message_dict, Head(msgs).id, to_dict(Head(msgs))),
                                 thrds, Head(msgs)),
                    Tail(msgs))

\* playground 99-102: the second pass gives every stored parent its replies.
second_pass(message_dict, thrds) ==
    [i \in 1..Len(message_dict) |->
        IF message_dict[i].key \in Keys(thrds)
        THEN Item(message_dict[i].key,
                  [replies |-> Lookup(thrds, message_dict[i].key)] @@ message_dict[i].value)
        ELSE message_dict[i]]

\* playground process_messages
playground_process_messages(msgs) ==
    LET first == first_pass(<<>>, <<>>, msgs) IN
        [messages |-> second_pass(first.messages, first.threads), threads |-> first.threads]

\* playground 113-123: the text of the node of msg_data.
playground_NodeText(processed, msg_data) ==
    LET text == msg_data.author \o " said: " \o msg_data.content IN
        IF "refers_to" \in DOMAIN msg_data
        THEN LET parent_id == msg_data.refers_to IN
                IF parent_id \in Keys(processed)
                THEN text \o "\n[In reply to " \o Lookup(processed, parent_id).author
                          \o " who said: " \o Lookup(processed, parent_id).content \o "]"
                ELSE text
        ELSE text

\* playground create_llama_index over processed_data["messages"]
create_llama_index(processed) ==
    [i \in 1..Len(processed) |->
        [text |-> playground_NodeText(processed, processed[i].value),
         message_id |-> processed[i].key]]

\* An indexer constructed over the messages a crawl brought.
IndexInit ==
    /\ InitCommon
    /\ file = _save_tokens(<<>>)
    /\ pc = "index"
    /\ server_task = "none"
    /\ call = NoCall
    /\ NoCrawl
    /\ request = NoRequest
    /\ indexer \in {"service", "playground"}
    /\ api_messages \in MessageLists
    /\ messages = [i \in 1..Len(api_messages) |->
                      IF indexer = "service" THEN MessageModel(api_messages[i])
                      ELSE playground_MessageModel(api_messages[i])]
    /\ ipc = "start"
    /\ processed_data = <<>>
    /\ threads = <<>>
    /\ nodes = <<>>
    /\ NoService
    /\ NoExtra

\* processed_data = process_messages()
ProcessMessages ==
    /\ ipc = "start"
    /\ IF indexer = "service"
       THEN /\ processed_data' = process_messages(messages)
            /\ UNCHANGED threads
       ELSE /\ processed_data' = playground_process_messages(messages).messages
            /\ threads' = playground_process_messages(messages).threads
    /\ ipc' = "processed"
    /\ UNCHANGED <<indexer, api_messages, messages, nodes>>
    /\ UNCHANGED <<oauth_vars, call, crawl_vars, request, service_vars, extra_vars>>

\* create_index(processed_data): the nodes go to VectorStoreIndex.
CreateIndex ==
    /\ ipc = "processed"
    /\ nodes' = IF indexer = "service" THEN create_index(processed_data)
                ELSE create_llama_index(processed_data)
    /\ ipc' = "indexed"
    /\ UNCHANGED <<indexer, api_messages, messages, processed_data, threads>>
    /\ UNCHANGED <<oauth_vars, call, crawl_vars, request, service_vars, extra_vars>>

IndexNext == ProcessMessages \/ CreateIndex

IndexSpec == IndexInit /\ [][IndexNext]_vars

\* ------------------------------------------------------------- the message service
\* Calls made on one MessageService.
MaxCalls == 3

\* The defaults of query_messages; scores are counted in tenths.
DefaultTopK == 10

DefaultMinScore == 0

TopKs == {1, 2, DefaultTopK}

MinScores == {DefaultMinScore, 4, 5}

\* What fetch_messages_from_all_guilds may return: nothing, a message with
\* a reply and a reply to the reply, an orphaned reply with a message.
FetchResults ==
    { <<>>,
      <<MessageModel(ApiMessage("A", "x", "hi")),
        MessageModel(Reply(ApiMessage("B", "y", "yo"), "A")),
        MessageModel(Reply(ApiMessage("C", "z", "ok"), "B"))>>,
      <<MessageModel(Reply(ApiMessage("D", "w", "eh"), "Z")),
        MessageModel(ApiMessage("A", "x", "hi"))>> }

\* The similarity the provider finds between the query and a node, in tenths.
Score(message_id) ==
    CASE message_id = "A" -> 9
      [] message_id = "B" -> 4
      [] message_id = "C" -> 2
      [] OTHER -> -1

\* The nodes of an index, the most similar first.
RECURSIVE Ranked(_)
Ranked(ns) ==
    IF ns = {} THEN <<>>
    ELSE LET best == CHOOSE n \in ns : \A o \in ns : Score(o.message_id) <= Score(n.message_id) IN
            <<best>> \o Ranked(ns \ {best})

\* retriever.retrieve(query) with similarity_top_k = k: the k most similar
\* nodes, fewer when the index holds fewer; rag_service.py 87-91 makes a
\* result of each.
retrieve(index, k) ==
    LET ranked == Ranked({index.nodes[i] : i \in 1..Len(index.nodes)}) IN
        [i \in 1..Min(k, Len(ranked)) |->
            [text |-> ranked[i].text, score |-> Score(ranked[i].message_id),
             message_id |-> ranked[i].message_id]]

\* The filter with a strict comparison.
filtered_results_Strict(results, min_score) ==
    SelectSeq(results, LAMBDA r : r.score > min_score)

\* message_service.py 51-53: [r for r in results if r["score"] >= min_score]
filtered_results(results, min_score) ==
    SelectSeq(results, LAMBDA r : r.score >= min_score)

\* Every query processes the messages again.
needs_process_Always(rag) == TRUE

\* message_service.py 43: if not self.rag_service
needs_process(rag) == rag = <<>>

\* RAGService(messages): no index yet.
RAGService(msgs) == [messages |-> msgs, _index |-> <<>>]

\* How process_messages may end from a service holding msgs and rag, after f
\* fetches and b builds: the fetch of line 33, made when no messages are
\* held, may raise; line 35 assigns the new RAGService; create_index of line
\* 37 may raise before it sets _index (the embedding model or faiss fails).
ProcessOutcomes(msgs, rag, f, b) ==
    LET fetched ==
            IF msgs = <<>>
            THEN {[raised |-> "", msgs |-> r, f |-> f + 1] : r \in FetchResults}
                 \cup {[raised |-> "fetch", msgs |-> msgs, f |-> f + 1]}
            ELSE {[raised |-> "", msgs |-> msgs, f |-> f]} IN
        UNION {
            IF x.raised # ""
            THEN {[raised |-> x.raised, _messages |-> x.msgs, rag_service |-> rag,
                   fetches |-> x.f, builds |-> b]}
            ELSE {[raised |-> "", _messages |-> x.msgs,
                   rag_service |->
                       <<[RAGService(x.msgs) EXCEPT !._index =
                             <<[handle |-> b + 1,
                                nodes |-> create_index(process_messages(x.msgs))]>>]>>,
                   fetches |-> x.f, builds |-> b + 1],
                  [raised |-> "create_index", _messages |-> x.msgs,
                   rag_service |-> <<RAGService(x.msgs)>>,
                   fetches |-> x.f, builds |-> b]}
            : x \in fetched}

\* await service.fetch_messages()
FetchMessages ==
    /\ Len(log) < MaxCalls
    /\ log' = Append(log, "fetch_messages")
    /\ fetches' = fetches + 1
    /\ \E outcome \in Outcomes, r \in FetchResults :
          IF outcome = "ok"
          THEN /\ _messages' = r
               /\ result' = [NoResult EXCEPT !.value = r]
          ELSE /\ result' = [NoResult EXCEPT !.raised = "fetch"]
               /\ UNCHANGED _messages
    /\ UNCHANGED <<rag_service, builds>>
    /\ UNCHANGED <<oauth_vars, call, crawl_vars, request, index_vars, extra_vars>>

\* await service.process_messages()
ProcessMessagesCall ==
    /\ Len(log) < MaxCalls
    /\ log' = Append(log, "process_messages")
    /\ \E o \in ProcessOutcomes(_messages, rag_service, fetches, builds) :
          /\ _messages' = o._messages
          /\ rag_service' = o.rag_service
          /\ fetches' = o.fetches
          /\ builds' = o.builds
          /\ result' = [NoResult EXCEPT !.raised = o.raised]
    /\ UNCHANGED <<oauth_vars, call, crawl_vars, request, index_vars, extra_vars>>

\* await service.query_messages(query, min_score, top_k): lines 43-46 process
\* when there is no rag_service; line 48 asks the RAGService, whose
\* query_messages raises ValueError when it has no _index; lines 51-54 filter.
QueryMessages ==
    /\ Len(log) < MaxCalls
    /\ log' = Append(log, "query_messages")
    /\ \E top_k \in TopKs, min_score \in MinScores :
       \E o \in IF needs_process(rag_service)
                THEN ProcessOutcomes(_messages, rag_service, fetches, builds)
                ELSE {[raised |-> "", _messages |-> _messages, rag_service |-> rag_service,
                       fetches |-> fetches, builds |-> builds]} :
          /\ _messages' = o._messages
          /\ rag_service' = o.rag_service
          /\ fetches' = o.fetches
          /\ builds' = o.builds
          /\ result' =
                IF o.raised # ""
                THEN [NoResult EXCEPT !.raised = o.raised, !.top_k = top_k,
                                      !.min_score = min_score]
                ELSE IF o.rag_service = <<>>
                THEN [NoResult EXCEPT !.top_k = top_k, !.min_score = min_score]
                ELSE IF o.rag_service[1]._index = <<>>
                THEN [NoResult EXCEPT !.raised = "ValueError", !.top_k = top_k,
                                      !.min_score = min_score]
                ELSE [raised |-> "", top_k |-> top_k, min_score |-> min_score,
                      similarity_top_k |-> top_k,
                      retrieved |-> retrieve(o.rag_service[1]._index[1], top_k),
                      handle |-> o.rag_service[1]._index[1].handle,
                      value |-> filtered_results(
                                    retrieve(o.rag_service[1]._index[1], top_k), min_score)]
    /\ UNCHANGED <<oauth_vars, call, crawl_vars, request, index_vars, extra_vars>>

\* A MessageService just constructed.
ServiceInit ==
    /\ InitCommon
    /\ file = _save_tokens(<<>>)
    /\ pc = "service"
    /\ server_task = "none"
    /\ call = NoCall
    /\ NoCrawl
    /\ NoApp

ServiceNext == FetchMessages \/ ProcessMessagesCall \/ QueryMessages

\* One caller driving a MessageService, one call after the other.
ServiceSpec == ServiceInit /\ [][ServiceNext]_vars


\* ============================================================= claims
\* The credential get_latest_token returns from the flow's store is present
\* and not expired at the clock reading `now`.
LatestIsValid(tokens) ==
    /\ tokens # <<>>
    /\ get_latest_token(tokens)[1].expires_at # None
    /\ now < get_latest_token(tokens)[1].expires_at

\* C1: when the latest credential is not expired at the entry check, the
\* flow goes straight to the authenticated state with a Bearer client built
\* from that credential (and only then takes the fast path), and on the
\* fast path the receiver task is never created and the browser never opened.
C1_FastPath ==
    /\ [][(pc = "entry" /\ pc' # "entry" /\ LatestIsValid(ms_tokens))
            => /\ pc' = "fetch"
               /\ path' = "fast"
               /\ discord' = UserClient(get_latest_token(ms_tokens)[1])]_vars
    /\ [][(pc = "entry" /\ path' = "fast") => LatestIsValid(ms_tokens)]_vars
    /\ [](path = "fast" => (server_task = "none" /\ ~browser /\ discord.kind = "Bearer"))

C1_Witness == path = "fast" /\ pc = "done" /\ server_task = "none" /\ ~browser


\* A step of the poll loop: one iteration is executed.
PollStep == pc = "poll" /\ pc' # "poll"

\* The persisted store holds some credential that is not expired.
FileHoldsValid ==
    /\ file.ok
    /\ \E tok \in Toks(_load_tokens(<<>>, file)) :
          tok.expires_at # None /\ now < tok.expires_at

\* What the poller sees after a reload: the file's entries assigned over the
\* entries it already holds; the latest of those is not expired.
PollerSeesValidLatest == file.ok /\ LatestIsValid(_load_tokens(ms_tokens, file))

InPollLoop == pc \in {"poll", "sleep"}

\* C2 as claimed: a poll iteration leaves the loop as soon as the persisted
\* store holds any credential that is not expired.
C2_AnyValidLeaves == [][(PollStep /\ FileHoldsValid) => pc' = "await_ok"]_vars

\* C2 as amended: a poll iteration leaves the loop exactly when the latest
\* credential of the reloaded store is not expired; and, the poller being
\* scheduled fairly, while that stays so the flow leaves the poll loop.
C2_LatestValidLeaves ==
    /\ [][PollStep => ((pc' = "await_ok") <=> PollerSeesValidLatest)]_vars
    /\ (InPollLoop /\ PollerSeesValidLatest) ~> (~InPollLoop \/ ~PollerSeesValidLatest)

C2_Witness ==
    /\ pc = "await_ok"
    /\ response.status = 200
    /\ Len(ms_tokens) >= 2
    /\ \E tok \in Toks(ms_tokens) : is_expired(tok, now)


\* The receiver task is done: it was cancelled, it returned or it raised.
TaskDone == server_task \in {"cancelled", "finished", "failed"}

\* The receiver task exists and is not done.
TaskLive == server_task \in {"pending", "running", "cancelling"}

\* The flow ended in failure before it had a client to crawl with.
Failed == pc \in {"exited", "raised"} /\ closed = 0

\* C3: the flow reaches the crawl phase only with a Bearer client, and a
\* Bearer client is built only from a credential that is in the flow's store
\* and whose expiry lies after the clock reading of the check that chose it.
C3_AuthenticatedIsValid ==
    /\ (pc \in {"fetch", "done"} \/ closed > 0) => discord.kind = "Bearer"
    /\ discord.kind = "Bearer" =>
          /\ latest_token # <<>>
          /\ latest_token[1] \in Toks(ms_tokens)
          /\ discord.token = latest_token[1].access_token
          /\ latest_token[1].expires_at # None
          /\ checked_at # None
          /\ checked_at < latest_token[1].expires_at

C3_Witness ==
    /\ pc = "fetch"
    /\ path = "slow"
    /\ discord = [kind |-> "Bearer", token |-> 1]

\* C4: the poll iteration that finds the credential cancels the receiver
\* task; the flow goes on only once the task is done; a cancelled task takes
\* the flow to the authenticated state with no exit status set.
C4_CancelSwallowed ==
    /\ [][(PollStep /\ pc' = "await_ok") => server_task' \notin {"pending", "running"}]_vars
    /\ [][(pc = "await_ok" /\ pc' # pc)
            => /\ TaskDone
               /\ server_task = "cancelled" => (pc' = "fetch" /\ exit_code' = None)]_vars
    /\ []((pc = "fetch" /\ path = "slow")
            => (server_task \in {"cancelled", "finished"} /\ exit_code = None))

C4_Witness == pc = "fetch" /\ server_task = "cancelled" /\ exit_code = None

\* C5: an unparsable file seen by a reload, or an exception of the receiver
\* task surfaced by awaiting it, takes the flow to the handler, which stops
\* the receiver; from the handler the flow only ends, with exit status 1 and
\* without having crawled, and (the flow being scheduled) it does end.
C5_ErrorFails ==
    /\ [][(PollStep /\ ~file.ok)
            => (pc' = "await_err" /\ server_task' \notin {"pending", "running"})]_vars
    /\ [][(pc = "await_ok" /\ pc' # pc /\ server_task = "failed") => pc' = "await_err"]_vars
    /\ [][pc = "await_err"
            => /\ pc' \in {"await_err", "exited", "raised"}
               /\ pc' # pc => (exit_code' = 1 /\ TaskDone /\ closed' = 0)]_vars
    /\ [](Failed => (exit_code = 1 /\ TaskDone /\ path = "slow"))
    /\ (pc = "await_err") ~> Failed

C5_Witness == pc = "exited" /\ closed = 0 /\ ~file.ok /\ server_task = "cancelled"

\* C6: the receiver task is live only between its creation on the slow path
\* and the end of the await that follows its cancellation; it serves only
\* while the flow polls; it is not live before the entry check, in the
\* authenticated states or after the flow has ended.
C6_ReceiverLifetime ==
    /\ TaskLive => pc \in {"authorize", "poll", "sleep", "await_ok", "await_err"}
    /\ server_task = "running" => pc \in {"poll", "sleep"}
    /\ pc \in {"entry", "fetch", "done", "exited", "raised"} => ~TaskLive

C6_Witness ==
    /\ pc = "done"
    /\ path = "slow"
    /\ server_task = "cancelled"
    /\ response.status = 200

CallbackStored == exchanges' = exchanges + 1 /\ response'.status = 200

\* C8: the id under which a callback stores a credential is not already a
\* key of the receiver's store, so the credentials held before the callback
\* are all still held, under their ids, after it.
C8_FreshIds ==
    [][CallbackStored
         => /\ response'.token_id \notin Ids(rs_tokens)
            /\ \A i \in 1..Len(rs_tokens) : rs_tokens'[i] = rs_tokens[i]]_vars

\* C9: every entry that is in the file when the receiver's callback saves is
\* still in the file after the save.
C9_SaveKeepsFile ==
    [][(CallbackStored /\ file.ok)
         => \A i \in 1..Len(file.data) :
               \E j \in 1..Len(file'.data) : file'.data[j] = file.data[i]]_vars

\* C10: every credential of the receiver's store has
\* expires_at = created_at + expires_in.
C10_ExpiresAtDerived ==
    \A tok \in Toks(rs_tokens) : tok.expires_at = tok.created_at + tok.expires_in


\* The result of the last is_expired call and the credential it was made on.
Expired == call.ret[1]

ExpiredArg == call.tok[1]

\* C11: is_expired reports expired every credential without expires_at and
\* every credential whose expires_at is at or before the clock reading of the
\* call, reports not expired only one whose expires_at is after it, and a
\* credential reported expired is reported expired by the next call on it.
C11_IsExpired ==
    /\ [](call.op = "is_expired" =>
            /\ ExpiredArg.expires_at = None => Expired
            /\ (ExpiredArg.expires_at # None /\ ExpiredArg.expires_at <= call.t) => Expired
            /\ ~Expired => (ExpiredArg.expires_at # None /\ call.t < ExpiredArg.expires_at))
    /\ [][(call.op = "is_expired" /\ call'.op = "is_expired" /\ call'.tok = call.tok
             /\ Expired) => call'.ret[1]]_vars

C11_Witness ==
    /\ call.op = "is_expired"
    /\ ExpiredArg.expires_at = call.t
    /\ Expired


\* The stores that hold the entries of `tokens`, inserted in any order.
Reorderings(tokens) ==
    {[i \in 1..Len(tokens) |-> tokens[f[i]]] : f \in Permutations(1..Len(tokens))}

\* C12: get_latest_token returns nothing on an empty store and otherwise a
\* stored credential whose created_at is the greatest of the store, the same
\* created_at for every insertion order of the entries.
C12_LatestIsMax ==
    call.op = "get_latest_token" =>
        /\ rs_tokens = <<>> => call.ret = <<>>
        /\ rs_tokens # <<>> =>
              /\ call.ret # <<>>
              /\ call.ret[1] \in Toks(rs_tokens)
              /\ \A tok \in Toks(rs_tokens) : tok.created_at <= call.ret[1].created_at
              /\ \A p \in Reorderings(rs_tokens) :
                    get_latest_token(p)[1].created_at = call.ret[1].created_at

C12_Witness ==
    /\ call.op = "get_latest_token"
    /\ Len(rs_tokens) >= 2
    /\ call.ret[1].created_at > rs_tokens[Len(rs_tokens)].tok.created_at

\* C13: get_latest_token returns the same credential for every insertion
\* order of the store's entries.
C13_LatestStable ==
    call.op = "get_latest_token" =>
        \A p \in Reorderings(rs_tokens) : get_latest_token(p) = call.ret


\* A step that is a call of save_token / of delete_token.
SaveTokenStep == call' # call /\ call'.op = "save_token"

DeleteTokenStep == deletes' = deletes + 1 /\ call'.op = "delete_token"

\* C14: right after save_token(id, c) the store maps id to c, every other
\* entry is as it was, no entry came or went besides id, and the file is the
\* dump of the store, which a fresh manager reads back as that store.
C14_SaveTokenFrame ==
    [][SaveTokenStep =>
         /\ get_token(rs_tokens', call'.id) = call'.tok
         /\ file'.ok
         /\ Ids(rs_tokens') = Ids(rs_tokens) \cup {call'.id}
         /\ \A id \in Ids(rs_tokens) \ {call'.id} :
               get_token(rs_tokens', id) = get_token(rs_tokens, id)
         /\ file' = _save_tokens(rs_tokens')
         /\ _load_tokens(<<>>, file') = rs_tokens']_vars

C14_Witness ==
    /\ call.op = "save_token"
    /\ Len(rs_tokens) = 2
    /\ rs_tokens[1] = Entry(call.id, call.tok[1])
    /\ file = _save_tokens(rs_tokens)


\* C15: the file written from a store loads, in a fresh manager, to that
\* store (same ids in the same order, equal fields, an absent expires_at
\* absent again), and saving what was loaded writes the same file.
C15_RoundTrip ==
    /\ [](/\ _load_tokens(<<>>, _save_tokens(rs_tokens)) = rs_tokens
          /\ file.ok => _save_tokens(_load_tokens(<<>>, file)) = file)
    /\ [][(call' # call /\ call'.op = "__init__")
            => (rs_tokens' = rs_tokens /\ _save_tokens(rs_tokens') = file)]_vars

C15_Witness ==
    /\ call.op = "__init__"
    /\ \E tok \in Toks(rs_tokens) : tok.expires_at = None
    /\ \E tok \in Toks(rs_tokens) : tok.expires_at # None


CallbackServed == exchanges' = exchanges + 1

\* C17: a callback that succeeds has put one credential, the one just
\* issued, in the store and in the file under the token_id it answers with;
\* a callback that fails answers 400 and leaves the store and the file as
\* they were; either way the token endpoint was asked at most once.
C17_CallbackEffect ==
    [][CallbackServed =>
         /\ issued' - issued \in {0, 1}
         /\ IF response'.status = 200
            THEN /\ get_token(rs_tokens', response'.token_id) # <<>>
                 /\ get_token(rs_tokens', response'.token_id)[1].access_token = issued'
                 /\ issued' = issued + 1
                 /\ Len(rs_tokens') <= Len(rs_tokens) + 1
                 /\ file' = _save_tokens(rs_tokens')
            ELSE /\ response'.status = 400
                 /\ rs_tokens' = rs_tokens
                 /\ file' = file]_vars


\* The messages upstream holds for the channels chs, in the order of chs.
RECURSIVE MessagesOf(_)
MessagesOf(chs) ==
    IF chs = <<>> THEN <<>> ELSE ChannelMessages(Head(chs).id) \o MessagesOf(Tail(chs))

\* The channels fetch_messages_from_guild has been through, and those of
\* them whose fetch succeeded.
Visited == SubSeq(channels, 1, ci - 1)

Succeeded == SelectSeq(Visited, LAMBDA ch : ch.id \notin failed_channels)

\* C18: in fetch_messages_from_guild a failing message fetch never leaves
\* the call; the loop goes through the text channels of the guild in the
\* listing's order, each once, failed or not; and the messages collected are
\* the messages of the channels whose fetch succeeded, in that order.
C18_ChannelFailureIsolated ==
    /\ [][(flow = "service" /\ cpc = "messages")
            => /\ cpc' \in {"messages", "channels", "returned"}
               /\ ci' \in {ci, ci + 1}]_vars
    /\ []((flow = "service" /\ cpc = "messages") =>
            /\ channels = TextChannels(GuildChannels(guilds[gi]))
            /\ ci \in 1..(Len(channels) + 1)
            /\ SubSeq(attempted, Len(attempted) - (ci - 1) + 1, Len(attempted))
                 = [i \in 1..(ci - 1) |-> channels[i].id]
            /\ guild_messages = MessagesOf(Succeeded))

C18_Witness ==
    /\ flow = "service"
    /\ cpc = "messages"
    /\ Len(channels) = 3
    /\ ci = 4
    /\ failed_channels = {channels[2].id}
    /\ guild_messages = ChannelMessages(channels[1].id) \o ChannelMessages(channels[3].id)

\* C19: a failing channel listing of one guild, after messages of other
\* guilds were collected, does not make fetch_messages_from_all_guilds raise.
C19_ListingFailureIsolated ==
    (flow = "service" /\ failed_guilds # {} /\ all_messages # <<>>) => cpc # "raised"

\* The crawl has ended with a result: the service returned its messages,
\* the bot flow handed its messages to the indexer.
CrawlDone == (flow = "service" /\ cpc = "returned") \/ (flow = "bot" /\ cpc = "indexed")

\* Number of times channel c was fetched.
Attempts(c) == Cardinality({i \in 1..Len(attempted) : attempted[i] = c})

\* C20: when no listing failed, a crawl that ended has fetched every text
\* channel of every listed guild exactly once.
C20_CrawlCoversAll ==
    (CrawlDone /\ failed_guilds = {}) =>
        \A i \in 1..Len(guilds) :
            \A k \in 1..Len(TextChannels(GuildChannels(guilds[i]))) :
                Attempts(TextChannels(GuildChannels(guilds[i]))[k].id) = 1

\* The kind of the channel with id c in what the upstream API lists,
\* None when no listed guild has such a channel.
ChannelType(c) ==
    LET hits == {ch \in UNION {{GuildChannels(g)[k] : k \in 1..Len(GuildChannels(g))} :
                                   g \in 1..MaxGuilds} : ch.id = c} IN
        IF hits = {} THEN None ELSE (CHOOSE ch \in hits : TRUE).type

\* C21: every channel a message fetch was issued for is a text channel
\* (type 0), in both crawls and whatever the listings and failures were.
C21_OnlyTextChannels ==
    \A i \in 1..Len(attempted) : ChannelType(attempted[i]) = 0

\* A crawl that ended after a guild with a voice channel was listed: the
\* text channels around the voice channel were fetched.
C21_Witness ==
    /\ CrawlDone
    /\ \E i \in 1..Len(guilds) :
          /\ guilds[i] \notin failed_guilds
          /\ \E k \in 1..Len(GuildChannels(guilds[i])) :
                /\ GuildChannels(guilds[i])[k].type # 0
                /\ k > 1 /\ k < Len(GuildChannels(guilds[i]))
                /\ Attempts(GuildChannels(guilds[i])[k - 1].id) > 0
                /\ Attempts(GuildChannels(guilds[i])[k + 1].id) > 0

\* The value params carries under key k, as an Optional.
Sent(k) ==
    LET hits == {i \in 1..Len(request.sent) : request.sent[i][1] = k} IN
        IF hits = {} THEN <<>> ELSE <<request.sent[CHOOSE i \in hits : TRUE][2]>>

\* The keys of params that are cursors.
SentCursors == {request.sent[i][1] : i \in 1..Len(request.sent)} \ {"limit"}

\* C22: a call of get_channel_messages sends the request, with at most one
\* cursor: `before` if one was passed, else `after` if one was passed, else
\* `around` if one was passed, else none; a cursor is passed when the
\* argument is a non-empty string.
C22_CursorPrecedence ==
    request.status # "none" =>
        /\ request.status \in {"ok", "error"}
        /\ Cardinality(SentCursors) <= 1
        /\ IF Truthy(request.before)
           THEN SentCursors = {"before"} /\ Sent("before") = request.before
           ELSE IF Truthy(request.after)
           THEN SentCursors = {"after"} /\ Sent("after") = request.after
           ELSE IF Truthy(request.around)
           THEN SentCursors = {"around"} /\ Sent("around") = request.around
           ELSE SentCursors = {}

\* A call that passed all three cursors, different ones, went out with
\* `before` alone.
C22_Witness ==
    /\ request.status = "ok"
    /\ Truthy(request.before) /\ Truthy(request.after) /\ Truthy(request.around)
    /\ request.before # request.after
    /\ SentCursors = {"before"}

\* C23: the limit a call of get_channel_messages sends is min(limit, 100),
\* so never above 100, and the call goes out whatever the limit was.
C23_LimitClamped ==
    request.status # "none" =>
        /\ request.status \in {"ok", "error"}
        /\ Sent("limit") = <<IF request.limit <= 100 THEN request.limit ELSE 100>>
        /\ Sent("limit")[1] <= 100

\* A call with a limit above the maximum went out and was answered.
C23_Witness ==
    /\ request.status = "ok"
    /\ request.limit > 100
    /\ Sent("limit") = <<100>>

\* The text of the node made for message id.
TextOf(id) == nodes[CHOOSE i \in 1..Len(nodes) : nodes[i].message_id = id].text

\* C24: with A {x, hi} and B {y, yo, parent A}, the node of B made from the
\* list [B, A] has the text "y said: yo" and the node of B made from the
\* list [A, B] has the text "y said: yo\n[In reply to x who said: hi]".
C24_OrderDependent ==
    /\ (ipc = "indexed"
          /\ api_messages = <<Reply(ApiMessage("B", "y", "yo"), "A"), ApiMessage("A", "x", "hi")>>)
        => TextOf("B") = "y said: yo"
    /\ (ipc = "indexed"
          /\ api_messages = <<ApiMessage("A", "x", "hi"), Reply(ApiMessage("B", "y", "yo"), "A")>>)
        => TextOf("B") = "y said: yo\n[In reply to x who said: hi]"

\* The ids of the messages the indexer was given.
MessageIds == {api_messages[i].id : i \in 1..Len(api_messages)}

\* The message of the list stored under id: the last one with that id.
Stored(id) ==
    api_messages[CHOOSE i \in 1..Len(api_messages) :
                    /\ api_messages[i].id = id
                    /\ \A j \in (i + 1)..Len(api_messages) : api_messages[j].id # id]

\* C25: the text of every node is "{author} said: {content}" of its message,
\* followed by "\n[In reply to {parent author} who said: {parent content}]"
\* exactly when the message refers to a parent whose id is among the
\* messages processed.
C25_ReplyAnnotation ==
    ipc = "indexed" =>
        \A i \in 1..Len(nodes) :
            LET msg == Stored(nodes[i].message_id)
                first == msg.author.username \o " said: " \o msg.content IN
                IF "message_reference" \in DOMAIN msg
                   /\ msg.message_reference.message_id \in MessageIds
                THEN nodes[i].text =
                        first \o "\n[In reply to "
                              \o Stored(msg.message_reference.message_id).author.username
                              \o " who said: "
                              \o Stored(msg.message_reference.message_id).content \o "]"
                ELSE nodes[i].text = first

\* The parent ids the messages refer to.
Parents ==
    {api_messages[i].message_reference.message_id :
        i \in {j \in 1..Len(api_messages) : "message_reference" \in DOMAIN api_messages[j]}}

\* The ids of the messages that refer to p, in the order of the list.
RepliesTo(p) ==
    LET replies == SelectSeq(api_messages,
                             LAMBDA msg : /\ "message_reference" \in DOMAIN msg
                                          /\ msg.message_reference.message_id = p) IN
        [i \in 1..Len(replies) |-> replies[i].id]

\* C26: after the playground's process_messages the thread index has one
\* entry for every parent id some message refers to, whether or not that
\* parent is in the list, holding the ids of the messages that refer to it
\* in list order, and no entry for any other id.
C26_ThreadIndex ==
    (indexer = "playground" /\ ipc \in {"processed", "indexed"}) =>
        /\ Keys(threads) = Parents
        /\ Cardinality(Keys(threads)) = Len(threads)
        /\ \A p \in Parents : Lookup(threads, p) = RepliesTo(p)

\* A, B -> A, C -> B processed: A -> [B], B -> [C], nothing for C.
C26_Witness ==
    /\ indexer = "playground"
    /\ ipc = "processed"
    /\ api_messages = <<ApiMessage("A", "x", "hi"), Reply(ApiMessage("B", "y", "yo"), "A"),
                        Reply(ApiMessage("C", "z", "ok"), "B")>>
    /\ threads = <<Item("A", <<"B">>), Item("B", <<"C">>)>>

\* C27: the nodes handed to the index are one for each distinct message id
\* of the list, as many as there are distinct ids.
C27_OneNodePerId ==
    ipc = "indexed" =>
        /\ Len(nodes) = Cardinality(MessageIds)
        /\ {nodes[i].message_id : i \in 1..Len(nodes)} = MessageIds

\* A list with an id twice has been indexed by the service.
C27_Witness ==
    /\ indexer = "service"
    /\ ipc = "indexed"
    /\ Len(api_messages) > Cardinality(MessageIds)
    /\ Cardinality(MessageIds) > 1
    /\ Len(nodes) = Cardinality(MessageIds)

\* The last call on the service was a query_messages that returned the
\* filtered answer of the provider.
Answered ==
    /\ log # <<>>
    /\ log[Len(log)] = "query_messages"
    /\ result.raised = ""
    /\ result.handle # 0

\* The nodes of the index the service holds.
IndexSize == Len(rag_service[1]._index[1].nodes)

\* C28: a query that is answered asked the provider for top_k candidates,
\* whatever min_score was, and returns the candidates whose score is at
\* least min_score, all of them and no other, in the provider's order; with
\* min_score 0 every candidate with a score of 0 or more is returned.
C28_PostFilter ==
    Answered =>
        /\ result.similarity_top_k = result.top_k
        /\ Len(result.retrieved) = IF result.top_k <= IndexSize THEN result.top_k ELSE IndexSize
        /\ \A i \in 1..Len(result.retrieved) :
              (result.retrieved[i].score >= result.min_score)
                  <=> (\E j \in 1..Len(result.value) : result.value[j] = result.retrieved[i])
        /\ \A j \in 1..Len(result.value) :
              \E i \in 1..Len(result.retrieved) : result.retrieved[i] = result.value[j]
        /\ \A j, k \in 1..Len(result.value) :
              j < k => \E a, b \in 1..Len(result.retrieved) :
                          /\ a < b
                          /\ result.retrieved[a] = result.value[j]
                          /\ result.retrieved[b] = result.value[k]
        /\ result.min_score = 0 =>
              \A i \in 1..Len(result.retrieved) :
                  result.retrieved[i].score >= 0 =>
                      \E j \in 1..Len(result.value) : result.value[j] = result.retrieved[i]

\* The provider answered with scores 0.9, 0.4, 0.2, the threshold was 0.5,
\* and the first result alone was returned.
C28_Witness ==
    /\ Answered
    /\ [i \in 1..Len(result.retrieved) |-> result.retrieved[i].score] = <<9, 4, 2>>
    /\ result.min_score = 5
    /\ result.value = <<result.retrieved[1]>>

\* A step that is a call of query_messages.
QueryStep == log' = Append(log, "query_messages")

\* The service holds a RAGService whose index has been built.
Initialised == rag_service # <<>> /\ rag_service[1]._index # <<>>

C30_NoIndexNotBuiltError == result.raised # "ValueError"

\* C31: once the query loop has read the line "stop" it is left.
C31_StopLeavesLoop ==
    (flow = "bot" /\ query = "stop") => cpc # "query"

\* The Authorization values among a sequence of headers.
Authorization(hs) ==
    LET auth == SelectSeq(hs, LAMBDA h : h[1] = "Authorization") IN
        [i \in 1..Len(auth) |-> auth[i][2]]

\* C32: a client constructed with a token has one Authorization header,
\* "Bot {token}" for the kind BOT and "Bearer {token}" for the kind USER, a
\* client constructed without a token has none, and every request the client
\* sends carries the headers it was constructed with.
C32_HeaderExclusive ==
    /\ client # NoInstance =>
          Authorization(client.headers) =
              IF ~Truthy(client.token) THEN <<>>
              ELSE IF client.token_type = "BOT" THEN <<"Bot " \o client.token[1]>>
              ELSE <<"Bearer " \o client.token[1]>>
    /\ request.status # "none" => request.headers = client.headers

\* A client of the kind USER has sent a request with its Bearer header.
C32_Witness ==
    /\ request.status = "ok"
    /\ client.token_type = "USER"
    /\ Authorization(request.headers) = <<"Bearer tok">>

\* C33: whatever fails in the fetch phase of the user flow, the guild
\* listing, a channel listing or a message fetch, with whatever error, the
\* process does not exit with a non-zero status.
C33_FetchFailureDegrades ==
    failure.stage # "none" => exit_code = 0

\* C40: discord.close() runs once on every way out of the fetch phase, and
\* nowhere else: the step that leaves the fetch phase takes the number of
\* close() calls from 0 to 1 and no other step changes it.
C40_ClosedOnce ==
    [][/\ (pc = "fetch" /\ pc' # "fetch") => (closed = 0 /\ closed' = 1)
       /\ pc # "fetch" => closed' = closed]_vars

\* The fetch phase was left by the generic-error path, with exit status 1,
\* after the slow path, and the client was closed.
C40_Witness ==
    /\ pc = "exited"
    /\ path = "slow"
    /\ failure.error = "other"
    /\ exit_code = 1
    /\ closed = 1

\* C34: a construction or a reload of the store on an unparsable file
\* raises, leaves the in-memory store as it was (a construction gives no
\* instance at all) and leaves the file as it was.
C34_CorruptionFatal ==
    [][(~file.ok /\ call'.op \in {"__init__", "_load_tokens"}) =>
          /\ result'.raised = "JSONDecodeError"
          /\ ms_tokens' = ms_tokens
          /\ file' = file
          /\ call'.op = "__init__" => pc' = "raised"]_vars

\* A reload has raised on an unparsable file while the store held entries.
C34_Witness ==
    /\ call.op = "_load_tokens"
    /\ ~file.ok
    /\ result.raised = "JSONDecodeError"
    /\ ms_tokens # <<>>

\* C38: after a reload that returns, the in-memory store is the content of
\* the file: an entry another actor removed from the file is gone.
C38_ReloadReflectsFile ==
    [][(call'.op = "_load_tokens" /\ result'.raised = "") =>
          ms_tokens' = _load_tokens(<<>>, file')]_vars

\* C35: through MessageModel and model_dump of the service pipeline every
\* reply keeps its parent reference: the entry process_messages stores for a
\* message the API returned with message_reference carries the same parent id.
C35_ReferenceKept ==
    (indexer = "service" /\ ipc \in {"processed", "indexed"}) =>
        \A i \in 1..Len(processed_data) :
            LET msg == Stored(processed_data[i].key)
                kept == processed_data[i].value IN
                "message_reference" \in DOMAIN msg =>
                    /\ "message_reference" \in DOMAIN kept
                    /\ kept.message_reference.message_id = msg.message_reference.message_id

C37_FlowOnlyReads ==
    [][MainFlow => file' = file]_vars

\* The flow went the slow way and reached the fetch phase on the file the
\* receiver wrote.
C37_Witness ==
    /\ pc = "fetch"
    /\ path = "slow"
    /\ response.status = 200
    /\ file = _save_tokens(rs_tokens)

\* A callback whose code exchange failed: it answered 400 and nothing was issued.
CallbackRefused ==
    exchanges' = exchanges + 1 /\ response'.status = 400 /\ issued' = issued

\* The receiver task is over without having been cancelled by the flow.
ReceiverStopped == server_task \in {"finished", "failed"}

\* No callback, of this process or of another, has stored a credential, and the
\* flow is in its poll loop.
PollingInVain == pc \in {"poll", "sleep"} /\ issued = 0

\* C39 as stated: a refused callback leaves the flow in its poll loop, the
\* receiver running and both stores and the file as they were; and with no
\* callback having succeeded and the receiver stopped, no step takes the
\* flow out of the poll loop.
C39_NoExitWhenStopped ==
    [][/\ CallbackRefused =>
            /\ pc = "sleep" /\ pc' = pc
            /\ server_task = "running" /\ server_task' = server_task
            /\ UNCHANGED <<file, ms_tokens, rs_tokens>>
       /\ (PollingInVain /\ ReceiverStopped) => pc' \in {"poll", "sleep"}]_vars

\* C39, amended: a refused callback leaves the flow in its poll loop, the
\* receiver running and both stores and the file as they were; and with no
\* callback having succeeded, the receiver stopped and the store file
\* parsable, no step takes the flow out of the poll loop.
C39_RefusedCallbackHarmless ==
    [][/\ CallbackRefused =>
            /\ pc = "sleep" /\ pc' = pc
            /\ server_task = "running" /\ server_task' = server_task
            /\ UNCHANGED <<file, ms_tokens, rs_tokens>>
       /\ (PollingInVain /\ ReceiverStopped /\ file.ok) => pc' \in {"poll", "sleep"}]_vars

\* A callback was refused, the next one succeeded and the flow left the poll
\* loop with the credential it stored.
C39_Witness ==
    /\ exchanges = 2
    /\ issued = 1
    /\ ~other_done
    /\ response.status = 200
    /\ pc = "await_ok"
    /\ latest_token # <<>>
    /\ latest_token[1].access_token = 1

====
